---- MODULE Spec2Model ----
(***************************************************************************)
(* The p2p client of avail-light: the Client facade                        *)
(* (core/src/network/p2p/client.rs), the Command objects it enqueues and   *)
(* the bundle of Event Loop state (EventLoopEntries, core/src/network/     *)
(* p2p.rs) their run/abort methods work on.                                *)
(*                                                                         *)
(* The Event Loop itself (event_loop.rs) is described by section 4.5 of    *)
(* the design document only; the definitions that model it say so.         *)
(*                                                                         *)
(* A command's run and abort are operators from a state record (all the    *)
(* variables, see State) to a state record; the field res carries the      *)
(* outcome of the call: "ok", "err" (run returned Err) or the panic of an   *)
(* unwrap/expect that failed.                                              *)
(***************************************************************************)
EXTENDS Integers, Sequences, FiniteSets, TLC

\* ---------------------------------------------------------------- bounds
MaxCmds == 2        \* commands the callers of Spec issue
NumPeers == 2       \* remote peer identities
NumBlocks == 1      \* block numbers
MaxRecords == 3     \* records carried by one PutKadRecord
MaxPositions == 3   \* positions passed to one fetch_cells_from_dht
MaxLimit == 2       \* largest dht_parallelization_limit tried
MaxMemoryGb == 1    \* host memory / memory threshold grid, in GB
MaxCpus == 1        \* host cpu count / cpu threshold grid

Peers == 1..NumPeers
Blocks == 1..NumBlocks

\* ------------------------------------------------------------- addresses
\* A Multiaddr is a sequence of protocol components; an ip4 component
\* carries its four octets.
Ip4(a, b, c, d) == [proto |-> "ip4", ip |-> <<a, b, c, d>>]
Tcp == [proto |-> "tcp", ip |-> <<>>]
\* An ip6 component, with the leading bytes of its address.
Ip6(a, b, c, d) == [proto |-> "ip6", ip |-> <<a, b, c, d>>]
GlobalAddr == <<Ip4(159, 73, 143, 3), Tcp>>
PrivateAddr == <<Ip4(192, 168, 0, 1), Tcp>>
Multiaddrs == {GlobalAddr, PrivateAddr}

is_private(ip) ==
    \/ ip[1] = 10
    \/ (ip[1] = 172 /\ ip[2] >= 16 /\ ip[2] <= 31)
    \/ (ip[1] = 192 /\ ip[2] = 168)
is_loopback(ip) == ip[1] = 127
is_link_local(ip) == ip[1] = 169 /\ ip[2] = 254
is_documentation(ip) ==
    \/ (ip[1] = 192 /\ ip[2] = 0 /\ ip[3] = 2)
    \/ (ip[1] = 198 /\ ip[2] = 51 /\ ip[3] = 100)
    \/ (ip[1] = 203 /\ ip[2] = 0 /\ ip[3] = 113)
is_broadcast(ip) == ip = <<255, 255, 255, 255>>

\* Mutant: the whole of 192.0.0.0/24 is taken as not global.
is_global_no_exception(ip) ==
    ~ (\/ ip[1] = 0
       \/ is_private(ip)
       \/ is_loopback(ip)
       \/ is_link_local(ip)
       \/ (ip[1] = 192 /\ ip[2] = 0 /\ ip[3] = 0)
       \/ is_documentation(ip)
       \/ is_broadcast(ip))

is_global(ip) ==
    ~ (\/ ip[1] = 0
       \/ is_private(ip)
       \/ is_loopback(ip)
       \/ is_link_local(ip)
       \/ (ip[1] = 192 /\ ip[2] = 0 /\ ip[3] = 0 /\ ip[4] # 9 /\ ip[4] # 10)
       \/ is_documentation(ip)
       \/ is_broadcast(ip))

is_multiaddr_global(address) ==
    \E i \in 1..Len(address) :
        address[i].proto = "ip4" /\ is_global(address[i].ip)

\* ----------------------------------------------------------------- state
VARIABLES
    queue,                 \* the command queue (mpsc, unbounded), oldest first
    next_id,               \* next command / reply-channel identity
    tx,                    \* per command: where its oneshot::Sender is
    rx,                    \* per command: what its caller's Receiver has seen
    replies,               \* per command: number of send() calls on its channel
    loop,                  \* "running", or the panic that ended the task
    run_result,            \* history: per command, what its run returned
    listeners,             \* swarm: addresses listened on
    dialing,               \* swarm: peers with an outgoing dial in progress
    connected,             \* swarm: connected peers
    external_addresses,    \* swarm: confirmed external addresses
    routing_table,         \* kademlia k-buckets: set of <<peer, address>>
    autonat_servers,       \* auto_nat: registered servers
    store,                 \* kademlia record store: set of records
    queries,               \* kademlia: queries in progress, by query id
    next_qid,              \* kademlia: next QueryId
    kademlia_mode,         \* kademlia: the role set by set_mode
    pending_kad_queries,   \* EventLoop: QueryId -> QueryChannel
    pending_swarm_events,  \* EventLoop: PeerId -> command whose sender waits
    active_blocks,         \* EventLoop: block number -> BlockStat
    kad_mode,              \* EventLoop: the tracked Mode
    put_log,               \* history: per block, PUTs started/reported/rejected
    summaries,             \* history: per block, BlockStats at their removal
    host,                  \* what System::new_all() last reported; the clock
    fetch,                 \* one fetch_cells_from_dht / fetch_rows_from_dht call
    startup,               \* one bootstrap_on_startup call
    features,              \* cargo features of the build
    probe                  \* an address handed to is_global / is_multiaddr_global

vars == <<queue, next_id, tx, rx, replies, loop, run_result, listeners, dialing, connected,
          external_addresses, routing_table, autonat_servers, store, queries,
          next_qid, kademlia_mode, pending_kad_queries, pending_swarm_events,
          active_blocks, kad_mode, put_log, summaries, host, fetch,
          startup, features, probe>>

\* The state as one record, for the run/abort operators.
State ==
    [queue |-> queue, tx |-> tx, rx |-> rx, replies |-> replies, loop |-> loop,
     run_result |-> run_result,
     listeners |-> listeners, dialing |-> dialing, connected |-> connected,
     external_addresses |-> external_addresses,
     routing_table |-> routing_table, autonat_servers |-> autonat_servers,
     store |-> store, queries |-> queries, next_qid |-> next_qid,
     kademlia_mode |-> kademlia_mode,
     pending_kad_queries |-> pending_kad_queries,
     pending_swarm_events |-> pending_swarm_events,
     active_blocks |-> active_blocks, kad_mode |-> kad_mode,
     put_log |-> put_log, summaries |-> summaries, res |-> "ok"]

Commit(s) ==
    /\ queue' = s.queue
    /\ tx' = s.tx
    /\ rx' = s.rx
    /\ replies' = s.replies
    /\ loop' = s.loop
    /\ run_result' = s.run_result
    /\ listeners' = s.listeners
    /\ dialing' = s.dialing
    /\ connected' = s.connected
    /\ external_addresses' = s.external_addresses
    /\ routing_table' = s.routing_table
    /\ autonat_servers' = s.autonat_servers
    /\ store' = s.store
    /\ queries' = s.queries
    /\ next_qid' = s.next_qid
    /\ kademlia_mode' = s.kademlia_mode
    /\ pending_kad_queries' = s.pending_kad_queries
    /\ pending_swarm_events' = s.pending_swarm_events
    /\ active_blocks' = s.active_blocks
    /\ kad_mode' = s.kad_mode
    /\ put_log' = s.put_log
    /\ summaries' = s.summaries

\* Partial-function helpers (HashMap insert / remove).
MapInsert(m, k, v) == [x \in DOMAIN m \cup {k} |-> IF x = k THEN v ELSE m[x]]
MapRemove(m, k) == [x \in DOMAIN m \ {k} |-> m[x]]
EmptyMap == [x \in {} |-> 0]

\* ------------------------------------------------------ one-shot channels
\* A reply value: Result<T>.  Ok(ty, mode, n, m) is an Ok of the type named
\* ty, with the parts of the payload the commands compute; mode is "" and
\* n, m are 0 where the type has no such part.
Ok(ty, mode, n, m) == [ok |-> TRUE, ty |-> ty, mode |-> mode, n |-> n, m |-> m]
OkUnit == Ok("()", "", 0, 0)
ErrReply == [ok |-> FALSE, ty |-> "Report", mode |-> "", n |-> 0, m |-> 0]
NoReply == [ok |-> FALSE, ty |-> "-", mode |-> "", n |-> 0, m |-> 0]

Waiting == [st |-> "waiting", val |-> NoReply]

\* oneshot::Sender::send on command id's channel; the sender is consumed.
\* res "ok": delivered; res "err": the receiver was dropped (send returns Err).
send(s, id, val) ==
    LET s1 == [s EXCEPT !.tx[id] = "sent", !.replies[id] = @ + 1] IN
    IF s.rx[id].st = "waiting"
    THEN [s1 EXCEPT !.rx[id] = [st |-> "done", val |-> val], !.res = "ok"]
    ELSE [s1 EXCEPT !.res = "err"]

\* Dropping a Sender that was never used: a waiting Receiver resolves with
\* RecvError.
drop_sender(s, id) ==
    IF s.tx[id] \in {"cmd", "pending"}
    THEN [s EXCEPT !.tx[id] = "dropped",
                   !.rx[id] = IF @.st = "waiting"
                              THEN [st |-> "closed", val |-> NoReply] ELSE @]
    ELSE s

RECURSIVE drop_senders(_, _)
drop_senders(s, ids) ==
    IF ids = {} THEN s
    ELSE LET id == CHOOSE i \in ids : TRUE
         IN drop_senders(drop_sender(s, id), ids \ {id})

\* The outcomes of a call other than "ok" and "err": the panics.
UnwrapNone == "panic: unwrap on None"
ReceiverDropped == "panic: receiver dropped"
PutFailed == "panic: Unable to perform Kademlia PUT operation."
IsPanic(res) == res \in {UnwrapNone, ReceiverDropped, PutFailed}

\* self.response_sender.take().unwrap().send(val).expect("... receiver dropped")
\* unwrap panics when the Option is None; expect panics when send fails.
take_unwrap_send_expect(s, c, val) ==
    IF s.tx[c.id] # "cmd" THEN [s EXCEPT !.res = UnwrapNone]
    ELSE LET r == send(s, c.id, val)
         IN IF r.res = "err" THEN [r EXCEPT !.res = ReceiverDropped] ELSE r

\* --------------------------------------------------------------- commands
\* One record shape for every command; a field a command does not have
\* holds its default (peer 0, addr <<>>, block 0, records <<>>, ...).
\* A record key: the bytes of a cell reference ("block:row:col", the
\* position numbered idx) or of a row reference ("block:row").
cell_reference(block, position) == <<block, "cell", position>>
row_reference(block, row_index) == <<block, "row", row_index>>
NoKey == <<0, "none", 0>>

Cmd(id, type) ==
    [id |-> id, type |-> type, peer |-> 0, addr |-> <<>>, block |-> 0,
     records |-> <<>>, quorum |-> "", key |-> NoKey, now |-> 0,
     memory_gb_threshold |-> 0, cpus_threshold |-> 0]

ReplyTypes ==
    {"StartListening", "DialPeer", "Bootstrap", "AddAutonatServer",
     "GetKadRecord", "CountKademliaPeers", "GetLocalInfo",
     "GetExternalPeerInfo", "ListConnectedPeers", "ReconfigureKademliaMode",
     "ReduceKademliaMapSize", "GetKademliaMapSize", "PruneExpiredRecords"}
FireAndForgetTypes == {"AddAddress", "PutKadRecord"}

\* What a lookup in the local record store finds: nothing, or the length
\* and the content of the record's value.
NoRecord == [found |-> FALSE, len |-> 0, content |-> 0]

\* Option<Instant> of Record.expires: NoExpiry is None.
NoExpiry == -1
\* Record::is_expired(now): self.expires.map_or(false, |t| now >= t)
is_expired(record, now) == record.expires # NoExpiry /\ now >= record.expires

\* self.response_sender.take().unwrap(), the sender then being moved into a
\* pending table.
take_unwrap_park(s, c) ==
    IF s.tx[c.id] # "cmd" THEN [s EXCEPT !.res = UnwrapNone]
    ELSE [s EXCEPT !.tx[c.id] = "pending"]

\* EventLoopEntries::insert_query
insert_query(s, query_id, result_sender) ==
    [s EXCEPT !.pending_kad_queries = MapInsert(@, query_id, result_sender)]

\* EventLoopEntries::insert_swarm_event: HashMap::insert returns the old
\* value, which is dropped here.
insert_swarm_event(s, peer_id, id) ==
    LET old == IF peer_id \in DOMAIN s.pending_swarm_events
               THEN {s.pending_swarm_events[peer_id]} ELSE {}
        s1 == drop_senders(s, old)
    IN [s1 EXCEPT !.pending_swarm_events = MapInsert(@, peer_id, id)]

\* EventLoopEntries::external_address
external_address(s) == s.external_addresses

\* ---- PruneExpiredRecords (memory store)
\* Mutant: a record that expires at the very instant now is retained.
PruneExpiredRecords_run_strict(s, c) ==
    LET before == Cardinality(s.store)
        kept == {r \in s.store :
                    r.expires = NoExpiry \/ r.expires >= c.now}
        after == Cardinality(kept)
    IN take_unwrap_send_expect([s EXCEPT !.store = kept], c,
                               Ok("usize", "", before - after, 0))

PruneExpiredRecords_run(s, c) ==
    LET before == Cardinality(s.store)
        kept == {r \in s.store : ~ is_expired(r, c.now)}
        after == Cardinality(kept)
    IN take_unwrap_send_expect([s EXCEPT !.store = kept], c,
                               Ok("usize", "", before - after, 0))

\* ---- PruneExpiredRecords (kademlia-rocksdb feature)
PruneExpiredRecords_run_rocksdb(s, c) ==
    take_unwrap_send_expect(s, c, Ok("usize", "", 0, 0))

PruneExpiredRecords_abort(s, c) == s

\* ---- StartListening
StartListening_run(s, c, listen_ok) ==
    IF ~ listen_ok THEN [s EXCEPT !.res = "err"]
    ELSE take_unwrap_send_expect([s EXCEPT !.listeners = @ \cup {c.addr}],
                                 c, OkUnit)

StartListening_abort(s, c) == take_unwrap_send_expect(s, c, ErrReply)

\* ---- AddAddress
\* Mutant: an address the routing table already holds is taken out of it.
AddAddress_run_toggle(s, c) ==
    IF <<c.peer, c.addr>> \in s.routing_table
    THEN [s EXCEPT !.routing_table = @ \ {<<c.peer, c.addr>>}]
    ELSE [s EXCEPT !.routing_table = @ \cup {<<c.peer, c.addr>>}]

AddAddress_run(s, c) ==
    [s EXCEPT !.routing_table = @ \cup {<<c.peer, c.addr>>}]

AddAddress_abort(s, c) == s

\* ---- Bootstrap
\* kademlia.bootstrap() fails with NoKnownPeers on an empty routing table.
Bootstrap_run(s, c) ==
    IF s.routing_table = {} THEN [s EXCEPT !.res = "err"]
    ELSE LET query_id == s.next_qid
             s1 == [s EXCEPT !.next_qid = @ + 1,
                             !.queries = MapInsert(@, query_id,
                                 [kind |-> "bootstrap", key |-> NoKey,
                                  put_ok |-> TRUE, local |-> NoRecord])]
             s2 == take_unwrap_park(s1, c)
         IN IF IsPanic(s2.res) THEN s2
            ELSE insert_query(s2, query_id,
                              [kind |-> "Bootstrap", cmd |-> c.id])

Bootstrap_abort(s, c) == take_unwrap_send_expect(s, c, ErrReply)

\* ---- GetKadRecord
\* kademlia.get_record(key) starts the query and looks the key up in the
\* local store: a record found there that has not expired at now is the
\* first result the query reports.
local_record(s, key, now) ==
    LET hits == {r \in s.store : r.key = key /\ ~ is_expired(r, now)}
    IN IF hits = {} THEN NoRecord
       ELSE LET r == CHOOSE x \in hits : TRUE
            IN [found |-> TRUE, len |-> r.len, content |-> r.content]

\* A GET query in progress: finishing once a record was reported for it
\* (first holds that record), until its final event.
get_query(s, key, now) ==
    [kind |-> "get", key |-> key, put_ok |-> TRUE,
     local |-> local_record(s, key, now), finishing |-> FALSE,
     first |-> NoReply]

\* Mutant: the reply sender is taken but not put in the pending table.
GetKadRecord_run_unparked(s, c, now) ==
    LET query_id == s.next_qid
        s1 == [s EXCEPT !.next_qid = @ + 1,
                        !.queries = MapInsert(@, query_id,
                                              get_query(s, c.key, now))]
        s2 == take_unwrap_park(s1, c)
    IN IF IsPanic(s2.res) THEN s2 ELSE drop_sender(s2, c.id)

GetKadRecord_run(s, c, now) ==
    LET query_id == s.next_qid
        s1 == [s EXCEPT !.next_qid = @ + 1,
                        !.queries = MapInsert(@, query_id,
                                              get_query(s, c.key, now))]
        s2 == take_unwrap_park(s1, c)
    IN IF IsPanic(s2.res) THEN s2
       ELSE insert_query(s2, query_id, [kind |-> "GetRecord", cmd |-> c.id])

GetKadRecord_abort(s, c) == take_unwrap_send_expect(s, c, ErrReply)

\* ---- PutKadRecord
\* BlockStat::increase_block_stat_counters
\* Mutants: one of the two counters is not raised.
increase_total_only(block, cell_number) ==
    [block EXCEPT !.total_count = @ + cell_number]

increase_remaining_only(block, cell_number) ==
    [block EXCEPT !.remaining_counter = @ + cell_number]

increase_block_stat_counters(block, cell_number) ==
    [block EXCEPT !.total_count = @ + cell_number,
                  !.remaining_counter = @ + cell_number]

\* Mutant: the entry of a new block starts with nothing remaining.
NewBlockStat_none_remaining(n) ==
    [total_count |-> n, remaining_counter |-> 0, success_counter |-> 0,
     error_counter |-> 0]

NewBlockStat(n) ==
    [total_count |-> n, remaining_counter |-> n, success_counter |-> 0,
     error_counter |-> 0]

\* Mutant: HashMap::insert, replacing the entry of a block already present.
insert_replacing(active, block_num, n) ==
    MapInsert(active, block_num, NewBlockStat(n))

\* active_blocks.entry(block_num).and_modify(..).or_insert(..)
entry_and_modify_or_insert(active, block_num, n) ==
    IF block_num \in DOMAIN active
    THEN [active EXCEPT ![block_num] = increase_block_stat_counters(@, n)]
    ELSE MapInsert(active, block_num, NewBlockStat(n))

\* The for loop over self.records from record i on.  reject_at is the index
\* of the first record whose kademlia.put_record returns Err (0: none does);
\* .expect panics there.
RECURSIVE put_records(_, _, _, _)
put_records(s, c, i, reject_at) ==
    IF i > Len(c.records) THEN s
    ELSE IF i = reject_at
    THEN [s EXCEPT !.res = PutFailed,
                   !.put_log[c.block].rejected = @ + 1]
    ELSE LET record == c.records[i]
             query_id == s.next_qid
             s1 == [s EXCEPT
                      !.next_qid = @ + 1,
                      !.store = {r \in @ : r.key # record.key}
                                \cup {[key |-> record.key, len |-> record.len,
                                       content |-> record.content,
                                       expires |-> record.expires]},
                      !.queries = MapInsert(@, query_id,
                          [kind |-> "put", key |-> record.key,
                           put_ok |-> record.put_ok, local |-> NoRecord]),
                      !.put_log[c.block].started = @ + 1]
             s2 == insert_query(s1, query_id,
                                [kind |-> "PutRecord", cmd |-> 0])
         IN put_records(s2, c, i + 1, reject_at)

PutKadRecord_run(s, c, reject_at) ==
    LET s1 == [s EXCEPT !.active_blocks =
                   entry_and_modify_or_insert(@, c.block, Len(c.records))]
    IN put_records(s1, c, 1, reject_at)

PutKadRecord_abort(s, c) == s

\* ---- CountKademliaPeers
CountKademliaPeers_run(s, c) ==
    LET peers == {e[1] : e \in s.routing_table}
        total_peers == Cardinality(peers)
        peers_with_non_pvt_addr ==
            Cardinality({p \in peers : \E e \in s.routing_table :
                            e[1] = p /\ is_multiaddr_global(e[2])})
    IN take_unwrap_send_expect(s, c,
           Ok("(usize, usize)", "", total_peers, peers_with_non_pvt_addr))

CountKademliaPeers_abort(s, c) == take_unwrap_send_expect(s, c, ErrReply)

\* ---- GetLocalInfo
GetLocalInfo_run(s, c) ==
    LET public_listeners ==
            {a \in s.external_addresses : is_multiaddr_global(a)}
    IN take_unwrap_send_expect(s, c,
           Ok("PeerInfo", s.kad_mode, Cardinality(external_address(s)),
                 Cardinality(public_listeners)))

GetLocalInfo_abort(s, c) == take_unwrap_send_expect(s, c, ErrReply)

\* ---- GetExternalPeerInfo
GetExternalPeerInfo_run(s, c) ==
    LET multiaddresses == {e[2] : e \in {x \in s.routing_table : x[1] = c.peer}}
    IN take_unwrap_send_expect(s, c,
           Ok("MultiAddressInfo", "", Cardinality(multiaddresses), 0))

GetExternalPeerInfo_abort(s, c) == take_unwrap_send_expect(s, c, ErrReply)

\* ---- ListConnectedPeers
ListConnectedPeers_run(s, c) ==
    take_unwrap_send_expect(s, c,
        Ok("Vec<String>", "", Cardinality(s.connected), 0))

ListConnectedPeers_abort(s, c) == take_unwrap_send_expect(s, c, ErrReply)

\* ---- ReconfigureKademliaMode
\* memory_gb and cpus are what System::new_all() reports at this call;
\* memory_gb is total_memory / BYTES_IN_GB, here already on the GB grid.
\* Mutant: the role of the Kademlia behaviour is left as it was.
set_mode_skipped(s, mode) == s

set_mode(s, mode) == [s EXCEPT !.kademlia_mode = mode]

\* Mutants of ReconfigureKademliaMode::run: the cpu comparison is not strict;
\* a Server also steps down when the host is below the thresholds.
ReconfigureKademliaMode_run_nonstrict(s, c, memory_gb, cpus) ==
    LET s1 ==
          IF s.kad_mode = "Client" /\ external_address(s) # {}
          THEN IF memory_gb > c.memory_gb_threshold /\ cpus >= c.cpus_threshold
               THEN [set_mode(s, "Server") EXCEPT !.kad_mode = "Server"]
               ELSE s
          ELSE IF s.kad_mode = "Server" /\ external_address(s) = {}
               THEN [set_mode(s, "Client") EXCEPT !.kad_mode = "Client"]
               ELSE s
    IN take_unwrap_send_expect(s1, c, Ok("Mode", s1.kad_mode, 0, 0))

ReconfigureKademliaMode_run_stepdown(s, c, memory_gb, cpus) ==
    LET s1 ==
          IF s.kad_mode = "Client" /\ external_address(s) # {}
          THEN IF memory_gb > c.memory_gb_threshold /\ cpus > c.cpus_threshold
               THEN [set_mode(s, "Server") EXCEPT !.kad_mode = "Server"]
               ELSE s
          ELSE IF s.kad_mode = "Server"
                  /\ (external_address(s) = {}
                      \/ memory_gb <= c.memory_gb_threshold)
               THEN [set_mode(s, "Client") EXCEPT !.kad_mode = "Client"]
               ELSE s
    IN take_unwrap_send_expect(s1, c, Ok("Mode", s1.kad_mode, 0, 0))

ReconfigureKademliaMode_run(s, c, memory_gb, cpus) ==
    LET s1 ==
          IF s.kad_mode = "Client" /\ external_address(s) # {}
          THEN IF memory_gb > c.memory_gb_threshold /\ cpus > c.cpus_threshold
               THEN [set_mode(s, "Server") EXCEPT !.kad_mode = "Server"]
               ELSE s
          ELSE IF s.kad_mode = "Server" /\ external_address(s) = {}
               THEN [set_mode(s, "Client") EXCEPT !.kad_mode = "Client"]
               ELSE s
    IN take_unwrap_send_expect(s1, c, Ok("Mode", s1.kad_mode, 0, 0))

ReconfigureKademliaMode_abort(s, c) == take_unwrap_send_expect(s, c, ErrReply)

\* ---- ReduceKademliaMapSize (shrink_hashmap changes capacity only)
ReduceKademliaMapSize_run(s, c) == take_unwrap_send_expect(s, c, OkUnit)

ReduceKademliaMapSize_abort(s, c) == s

\* ---- GetKademliaMapSize
GetKademliaMapSize_run(s, c) ==
    take_unwrap_send_expect(s, c, Ok("usize", "", Cardinality(s.store), 0))

GetKademliaMapSize_abort(s, c) == s

\* ---- DialPeer
\* Mutant: run answers the caller itself as soon as the dial has started.
DialPeer_run_replying(s, c, dial_ok) ==
    IF ~ dial_ok THEN [s EXCEPT !.res = "err"]
    ELSE take_unwrap_send_expect([s EXCEPT !.dialing = @ \cup {c.peer}], c,
             Ok("ConnectionEstablishedInfo", "", c.peer, 0))

DialPeer_run(s, c, dial_ok) ==
    IF ~ dial_ok THEN [s EXCEPT !.res = "err"]
    ELSE LET s1 == [s EXCEPT !.dialing = @ \cup {c.peer}]
         IN IF s1.tx[c.id] # "cmd" THEN [s1 EXCEPT !.res = UnwrapNone]
            ELSE insert_swarm_event([s1 EXCEPT !.tx[c.id] = "pending"],
                                    c.peer, c.id)

DialPeer_abort(s, c) == take_unwrap_send_expect(s, c, ErrReply)

\* ---- AddAutonatServer
AddAutonatServer_run(s, c) ==
    take_unwrap_send_expect(
        [s EXCEPT !.autonat_servers = @ \cup {<<c.peer, c.addr>>}], c, OkUnit)

AddAutonatServer_abort(s, c) == s

\* ------------------------------------------------------------- Event Loop
\* Command::run / Command::abort, dispatched on the command's type.
\* env carries what the libraries and the host decide at the call.
NoEnv == [listen_ok |-> TRUE, dial_ok |-> TRUE, reject_at |-> 0,
          memory_gb |-> 0, cpus |-> 0, kademlia_rocksdb |-> FALSE,
          now |-> 0]

run(s, c, env) ==
    CASE c.type = "PruneExpiredRecords" ->
             IF env.kademlia_rocksdb THEN PruneExpiredRecords_run_rocksdb(s, c)
             ELSE PruneExpiredRecords_run(s, c)
      [] c.type = "StartListening" -> StartListening_run(s, c, env.listen_ok)
      [] c.type = "AddAddress" -> AddAddress_run(s, c)
      [] c.type = "Bootstrap" -> Bootstrap_run(s, c)
      [] c.type = "GetKadRecord" -> GetKadRecord_run(s, c, env.now)
      [] c.type = "PutKadRecord" -> PutKadRecord_run(s, c, env.reject_at)
      [] c.type = "CountKademliaPeers" -> CountKademliaPeers_run(s, c)
      [] c.type = "GetLocalInfo" -> GetLocalInfo_run(s, c)
      [] c.type = "GetExternalPeerInfo" -> GetExternalPeerInfo_run(s, c)
      [] c.type = "ListConnectedPeers" -> ListConnectedPeers_run(s, c)
      [] c.type = "ReconfigureKademliaMode" ->
             ReconfigureKademliaMode_run(s, c, env.memory_gb, env.cpus)
      [] c.type = "ReduceKademliaMapSize" -> ReduceKademliaMapSize_run(s, c)
      [] c.type = "GetKademliaMapSize" -> GetKademliaMapSize_run(s, c)
      [] c.type = "DialPeer" -> DialPeer_run(s, c, env.dial_ok)
      [] c.type = "AddAutonatServer" -> AddAutonatServer_run(s, c)

abort(s, c) ==
    CASE c.type = "PruneExpiredRecords" -> PruneExpiredRecords_abort(s, c)
      [] c.type = "StartListening" -> StartListening_abort(s, c)
      [] c.type = "AddAddress" -> AddAddress_abort(s, c)
      [] c.type = "Bootstrap" -> Bootstrap_abort(s, c)
      [] c.type = "GetKadRecord" -> GetKadRecord_abort(s, c)
      [] c.type = "PutKadRecord" -> PutKadRecord_abort(s, c)
      [] c.type = "CountKademliaPeers" -> CountKademliaPeers_abort(s, c)
      [] c.type = "GetLocalInfo" -> GetLocalInfo_abort(s, c)
      [] c.type = "GetExternalPeerInfo" -> GetExternalPeerInfo_abort(s, c)
      [] c.type = "ListConnectedPeers" -> ListConnectedPeers_abort(s, c)
      [] c.type = "ReconfigureKademliaMode" ->
             ReconfigureKademliaMode_abort(s, c)
      [] c.type = "ReduceKademliaMapSize" -> ReduceKademliaMapSize_abort(s, c)
      [] c.type = "GetKademliaMapSize" -> GetKademliaMapSize_abort(s, c)
      [] c.type = "DialPeer" -> DialPeer_abort(s, c)
      [] c.type = "AddAutonatServer" -> AddAutonatServer_abort(s, c)

\* A panic inside the Event Loop task unwinds it: the EventLoop value is
\* dropped with the swarm, the command receiver (and the commands still
\* queued), the pending tables and active_blocks; every reply sender they
\* held is dropped unused.
unwind(s) ==
    LET s1 == drop_senders(s, DOMAIN s.tx)
    IN [s1 EXCEPT !.loop = s.res, !.queue = <<>>,
                  !.pending_kad_queries = EmptyMap,
                  !.pending_swarm_events = EmptyMap,
                  !.active_blocks = EmptyMap,
                  !.queries = EmptyMap, !.dialing = {}]

\* Section 4.5: "if a command is available, invoke run ...  On any run
\* error, invoke abort(error) so the caller unblocks."  The command is
\* dropped afterwards, with its sender if it still holds one.
handle_command(s, c, env) ==
    LET r == run(s, c, env)
        a == IF r.res = "err" THEN abort([r EXCEPT !.res = "ok"], c) ELSE r
        b == [a EXCEPT !.run_result[c.id] = r.res]
    IN IF IsPanic(b.res) THEN unwind(b)
       ELSE IF b.tx[c.id] = "cmd" THEN drop_sender(b, c.id) ELSE b

\* The state with the oldest command taken off the queue.
Dequeued == [State EXCEPT !.queue = Tail(queue)]

Runnable(type) ==
    /\ loop = "running"
    /\ queue # <<>>
    /\ Head(queue).type = type

Handle(env) ==
    /\ Commit(handle_command(Dequeued, Head(queue), env))
    /\ UNCHANGED <<next_id, host, fetch, startup, features, probe>>

\* #[cfg(feature = "kademlia-rocksdb")] selects the impl of the build.
RunPruneExpiredRecords ==
    /\ Runnable("PruneExpiredRecords")
    /\ Handle([NoEnv EXCEPT
                  !.kademlia_rocksdb = "kademlia-rocksdb" \in features])

RunStartListening ==
    /\ Runnable("StartListening")
    /\ \E ok \in BOOLEAN : Handle([NoEnv EXCEPT !.listen_ok = ok])

RunAddAddress == Runnable("AddAddress") /\ Handle(NoEnv)

RunBootstrap == Runnable("Bootstrap") /\ Handle(NoEnv)

\* kademlia.get_record reads the clock for its look at the local store.
RunGetKadRecord ==
    /\ Runnable("GetKadRecord")
    /\ Handle([NoEnv EXCEPT !.now = host.now])

RunPutKadRecord ==
    /\ Runnable("PutKadRecord")
    /\ \E k \in 0..Len(Head(queue).records) :
           Handle([NoEnv EXCEPT !.reject_at = k])

RunCountKademliaPeers == Runnable("CountKademliaPeers") /\ Handle(NoEnv)

RunGetLocalInfo == Runnable("GetLocalInfo") /\ Handle(NoEnv)

RunGetExternalPeerInfo == Runnable("GetExternalPeerInfo") /\ Handle(NoEnv)

RunListConnectedPeers == Runnable("ListConnectedPeers") /\ Handle(NoEnv)

RunReconfigureKademliaMode ==
    /\ Runnable("ReconfigureKademliaMode")
    /\ \E mem \in 0..MaxMemoryGb, cpus \in 0..MaxCpus :
           /\ Commit(handle_command(Dequeued, Head(queue),
                  [NoEnv EXCEPT !.memory_gb = mem, !.cpus = cpus]))
           /\ host' = [host EXCEPT !.memory_gb = mem, !.cpus = cpus]
           /\ UNCHANGED <<next_id, fetch, startup, features, probe>>

RunReduceKademliaMapSize == Runnable("ReduceKademliaMapSize") /\ Handle(NoEnv)

RunGetKademliaMapSize == Runnable("GetKademliaMapSize") /\ Handle(NoEnv)

\* Swarm::dial with DialOpts::peer_id(..) refuses a peer that is connected
\* or already being dialed; otherwise the dial may or may not start.
RunDialPeer ==
    /\ Runnable("DialPeer")
    /\ \E ok \in BOOLEAN :
           /\ ok => Head(queue).peer \notin dialing \cup connected
           /\ Handle([NoEnv EXCEPT !.dial_ok = ok])

RunAddAutonatServer == Runnable("AddAutonatServer") /\ Handle(NoEnv)

\* ----------------------------------------------------------- swarm events
\* Section 4.5 of the design document; the Event Loop source is not part
\* of this development.  Its sends ignore a dropped receiver.
send_ignore(s, id, val) == [send(s, id, val) EXCEPT !.res = "ok"]

\* ConnectionEstablished: "look up pending dial for the peer; if present,
\* send Ok(ConnectionEstablishedInfo{...}) and remove the entry."
on_connection_established(s, p) ==
    LET s1 == [s EXCEPT !.connected = @ \cup {p}, !.dialing = @ \ {p}]
    IN IF p \in DOMAIN s1.pending_swarm_events
       THEN [send_ignore(s1, s1.pending_swarm_events[p],
                         Ok("ConnectionEstablishedInfo", "", p, 0))
                EXCEPT !.pending_swarm_events = MapRemove(@, p)]
       ELSE s1

\* PutRecord result: "decrement remaining_counter, increment success or
\* error; when remaining_counter reaches zero, remove the block entry".
\* The block is the one the record's key names.
on_put_record_result(s, q) ==
    LET query == s.queries[q]
        b == query.key[1]
        s1 == [s EXCEPT !.queries = MapRemove(@, q),
                        !.pending_kad_queries = MapRemove(@, q),
                        !.put_log[b].reported_ok =
                            IF query.put_ok THEN @ + 1 ELSE @,
                        !.put_log[b].reported_err =
                            IF query.put_ok THEN @ ELSE @ + 1]
    IN IF q \notin DOMAIN s.pending_kad_queries
          \/ b \notin DOMAIN s.active_blocks
          \/ s.active_blocks[b].remaining_counter = 0
       THEN s1
       ELSE LET stat == [s.active_blocks[b] EXCEPT
                           !.remaining_counter = @ - 1,
                           !.success_counter =
                               IF query.put_ok THEN @ + 1 ELSE @,
                           !.error_counter =
                               IF query.put_ok THEN @ ELSE @ + 1]
            IN IF stat.remaining_counter = 0
               THEN [s1 EXCEPT !.active_blocks = MapRemove(@, b),
                               !.summaries[b] = Append(@, stat)]
               ELSE [s1 EXCEPT !.active_blocks[b] = stat]

\* GetRecord result: "send the first successful PeerRecord and cancel
\* further progress; on terminal failure, send the error."
\* GetRecord results: "send the first successful PeerRecord and cancel
\* further progress; on terminal failure, send the error."  An Ok val is a
\* record found (the query is then finishing and ends with a later, final
\* event); any other val is the final event of the query: its error when
\* no record was found, the end of a finishing query otherwise.
on_get_record_result(s, q, val) ==
    LET found == val.ok
        s1 == IF found
              THEN [s EXCEPT !.queries[q].first =
                                 IF s.queries[q].finishing THEN @ ELSE val,
                             !.queries[q].finishing = TRUE]
              ELSE [s EXCEPT !.queries = MapRemove(@, q)]
    IN IF q \in DOMAIN s1.pending_kad_queries
       THEN [send_ignore(s1, s1.pending_kad_queries[q].cmd,
                         IF found THEN val ELSE ErrReply)
                EXCEPT !.pending_kad_queries = MapRemove(@, q)]
       ELSE s1

\* The lengths of the record values peers return.
\* config::COMMITMENT_SIZE + config::CHUNK_SIZE
CellSize == 80
ValueLens == {CellSize - 1, CellSize}

\* The events a GET query can report next: before any record was found,
\* the unexpired record of the local store if there is one, else a record
\* from the network or the terminal error; once finishing, further
\* records or the final event (NoReply stands for it).
get_record_events(query) ==
    IF query.finishing
    THEN {NoReply} \cup {Ok("PeerRecord", "", n, 0) : n \in ValueLens}
    ELSE IF query.local.found
    THEN {Ok("PeerRecord", "", query.local.len, query.local.content)}
    ELSE {ErrReply} \cup {Ok("PeerRecord", "", n, 0) : n \in ValueLens}

\* Bootstrap: "on completion event, reply Ok and remove pending entry."
on_bootstrap_result(s, q) ==
    LET s1 == [s EXCEPT !.queries = MapRemove(@, q)]
    IN IF q \in DOMAIN s1.pending_kad_queries
       THEN [send_ignore(s1, s1.pending_kad_queries[q].cmd, OkUnit)
                EXCEPT !.pending_kad_queries = MapRemove(@, q)]
       ELSE s1

Event(s) == Commit(s) /\ UNCHANGED <<next_id, host, fetch, startup, features, probe>>

\* An outgoing dial completes, or a remote peer connects to us.
ConnectionEstablished ==
    /\ loop = "running"
    /\ \E p \in Peers \ connected :
           Event(on_connection_established(State, p))

\* An outgoing dial fails; section 4.5 names no handling of this event.
OutgoingConnectionError ==
    /\ loop = "running"
    /\ \E p \in dialing : Event([State EXCEPT !.dialing = @ \ {p}])

\* AutoNAT confirms or retracts an external address.
ExternalCandidates == {GlobalAddr}
ExternalAddrConfirmed ==
    /\ loop = "running"
    /\ \E a \in ExternalCandidates \ external_addresses :
           Event([State EXCEPT !.external_addresses = @ \cup {a}])

ExternalAddrExpired ==
    /\ loop = "running"
    /\ \E a \in external_addresses :
           Event([State EXCEPT !.external_addresses = @ \ {a}])

PutRecordResult ==
    /\ loop = "running"
    /\ \E q \in DOMAIN queries :
           /\ queries[q].kind = "put"
           /\ Event(on_put_record_result(State, q))

GetRecordResult ==
    /\ loop = "running"
    /\ \E q \in DOMAIN queries :
           /\ queries[q].kind = "get"
           /\ \E val \in get_record_events(queries[q]) :
                  Event(on_get_record_result(State, q, val))

BootstrapResult ==
    /\ loop = "running"
    /\ \E q \in DOMAIN queries :
           /\ queries[q].kind = "bootstrap"
           /\ Event(on_bootstrap_result(State, q))

\* ---------------------------------------------------------- Client facade
MaxNow == 0         \* latest Instant::now() a caller reads
Ttl == 1            \* Client.ttl, in the unit of MaxNow
NumPositions == 2   \* distinct cell positions
MaxRows == 1        \* rows carried by one insert_rows_into_dht
RowLen == 2         \* byte length of the rows inserted

Times == 0..MaxNow
Positions == 1..NumPositions

\* CommandSender::send for the commands cs (in order), each with a fresh
\* identity next_id, next_id + 1, ...; has_reply: a oneshot channel was
\* created for each.  With the Event Loop gone the receiver of the queue is
\* closed: send fails and the command is dropped with its sender.
\* UnboundedSender::send returns Err when the receiver of the queue is gone:
\* it is owned by the Event Loop and dropped when that task ends.
receiver_closed(l) == l # "running"

\* Mutant: the command is put at the head of the queue.
unbounded_send_first(q, cs) == cs \o q

\* UnboundedSender::send of the commands cs: appended at the tail.
unbounded_send(q, cs) == q \o cs

enqueue(cs) ==
    LET ids == {cs[i].id : i \in 1..Len(cs)}
        has_reply(id) == \E i \in 1..Len(cs) :
                            cs[i].id = id /\ cs[i].type \in ReplyTypes
        open == ~ receiver_closed(loop)
        ext(m, f(_)) == [x \in DOMAIN m \cup ids |->
                            IF x \in ids THEN f(x) ELSE m[x]]
        txf(id) == IF ~ has_reply(id) THEN "none"
                   ELSE IF open THEN "cmd" ELSE "dropped"
        rxf(id) == IF ~ open THEN [st |-> "send_error", val |-> NoReply]
                   ELSE IF has_reply(id) THEN Waiting
                   ELSE [st |-> "none", val |-> NoReply]
        zero(id) == 0
        none(id) == "none"
    IN /\ queue' = IF open THEN unbounded_send(queue, cs) ELSE queue
       /\ next_id' = next_id + Len(cs)
       /\ tx' = ext(tx, txf)
       /\ rx' = ext(rx, rxf)
       /\ replies' = ext(replies, zero)
       /\ run_result' = ext(run_result, none)
       /\ UNCHANGED <<loop, listeners, dialing, connected, external_addresses,
                      routing_table, autonat_servers, store, queries, next_qid,
                      kademlia_mode, pending_kad_queries, pending_swarm_events,
                      active_blocks, kad_mode, put_log, summaries, host,
                      features, probe>>

\* A call by one of the callers of Spec: Client::execute_sync up to the
\* await of the reply, or the send of a fire-and-forget command.
call(c) ==
    /\ next_id <= MaxCmds
    /\ enqueue(<<c>>)
    /\ UNCHANGED <<fetch, startup>>

start_listening ==
    \E a \in Multiaddrs : call([Cmd(next_id, "StartListening") EXCEPT !.addr = a])

add_address ==
    \E p \in Peers, a \in Multiaddrs :
        call([Cmd(next_id, "AddAddress") EXCEPT !.peer = p, !.addr = a])

dial_peer ==
    \E p \in Peers :
        call([Cmd(next_id, "DialPeer") EXCEPT !.peer = p, !.addr = GlobalAddr])

bootstrap == call(Cmd(next_id, "Bootstrap"))

add_autonat_server ==
    \E p \in Peers :
        call([Cmd(next_id, "AddAutonatServer") EXCEPT
                  !.peer = p, !.addr = GlobalAddr])

get_kad_record ==
    \E b \in Blocks, pos \in Positions :
        call([Cmd(next_id, "GetKadRecord") EXCEPT
                  !.key = cell_reference(b, pos)])

count_dht_entries == call(Cmd(next_id, "CountKademliaPeers"))

list_connected_peers == call(Cmd(next_id, "ListConnectedPeers"))

reconfigure_kademlia_mode ==
    \E mem \in 0..MaxMemoryGb, cpus \in 0..MaxCpus :
        call([Cmd(next_id, "ReconfigureKademliaMode") EXCEPT
                  !.memory_gb_threshold = mem, !.cpus_threshold = cpus])

get_local_info == call(Cmd(next_id, "GetLocalInfo"))

get_external_peer_info ==
    \E p \in Peers :
        call([Cmd(next_id, "GetExternalPeerInfo") EXCEPT !.peer = p])

shrink_kademlia_map == call(Cmd(next_id, "ReduceKademliaMapSize"))

get_kademlia_map_size == call(Cmd(next_id, "GetKademliaMapSize"))

\* now: Instant::now(), one of the instants T.
prune_expired_records_in(T) ==
    \E now \in T :
        call([Cmd(next_id, "PruneExpiredRecords") EXCEPT !.now = now])

prune_expired_records == prune_expired_records_in(Times)

\* DHTCell::dht_record for the cell at position pos: the key is the cell's
\* reference in the block, the value its 80 bytes of content, and
\* expires = Instant::now() + ttl.  put_ok is not part of the record: it is
\* the result the network will report for this record's PUT.
\* Mutant: the value of the record is one byte short of the content.
dht_record_truncated(block, pos, content, now, put_ok) ==
    [key |-> cell_reference(block, pos), len |-> CellSize - 1,
     content |-> content, expires |-> now + Ttl, put_ok |-> put_ok]

dht_record(block, pos, content, now, put_ok) ==
    [key |-> cell_reference(block, pos), len |-> CellSize,
     content |-> content, expires |-> now + Ttl, put_ok |-> put_ok]

\* DHTRow::dht_record: the value is the row's bytes, of any length.
dht_row_record(block, row_index, len, now, put_ok) ==
    [key |-> row_reference(block, row_index), len |-> len,
     content |-> 1, expires |-> now + Ttl, put_ok |-> put_ok]

\* A call that returns Err before it sends anything: the caller has its
\* result at once; no command and no reply channel exist.
return_early(error) ==
    /\ next_id <= MaxCmds
    /\ next_id' = next_id + 1
    /\ rx' = MapInsert(rx, next_id, [st |-> error, val |-> NoReply])
    /\ tx' = MapInsert(tx, next_id, "none")
    /\ replies' = MapInsert(replies, next_id, 0)
    /\ run_result' = MapInsert(run_result, next_id, "none")
    /\ UNCHANGED <<queue, loop, listeners, dialing, connected,
                   external_addresses, routing_table, autonat_servers, store,
                   queries, next_qid, kademlia_mode, pending_kad_queries,
                   pending_swarm_events, active_blocks, kad_mode, put_log,
                   summaries, host, fetch, startup, features, probe>>

\* Client::put_kad_record: one PutKadRecord, fire and forget.
put_kad_record(records, quorum, block_num) ==
    call([Cmd(next_id, "PutKadRecord") EXCEPT
              !.block = block_num, !.records = records, !.quorum = quorum])

\* Mutant: the list is not checked for emptiness.
insert_into_dht_unchecked(records, block_num) ==
    put_kad_record(records, "One", block_num)

\* Client::insert_into_dht: "Cant send empty record list."
insert_into_dht(records, block_num) ==
    IF records = <<>> THEN return_early("empty_list_error")
    ELSE put_kad_record(records, "One", block_num)

\* Client::insert_cells_into_dht(block, cells) for the n cells at positions
\* 1..n; oks[i] is the result the network will report for the PUT of cell i.
RECURSIVE cell_records(_, _, _, _)
cell_records(block, n, now, oks) ==
    IF n = 0 THEN <<>>
    ELSE Append(cell_records(block, n - 1, now, oks),
                dht_record(block, n, 1, now, oks[n]))

insert_cells(block, n, now, oks) ==
    insert_into_dht(cell_records(block, n, now, oks), block)

insert_cells_into_dht ==
    \E b \in Blocks, n \in 0..MaxRecords, now \in Times :
        \E oks \in [1..n -> BOOLEAN] : insert_cells(b, n, now, oks)

\* Client::insert_rows_into_dht(block, rows) for n rows of RowLen bytes.
RECURSIVE row_records(_, _, _, _)
row_records(block, n, now, oks) ==
    IF n = 0 THEN <<>>
    ELSE Append(row_records(block, n - 1, now, oks),
                dht_row_record(block, n, RowLen, now, oks[n]))

insert_rows(block, n, now, oks) ==
    insert_into_dht(row_records(block, n, now, oks), block)

insert_rows_into_dht ==
    \E b \in Blocks, n \in 0..MaxRows, now \in Times :
        \E oks \in [1..n -> BOOLEAN] : insert_rows(b, n, now, oks)

\* The caller stops awaiting (its future is dropped, e.g. by a timeout):
\* the oneshot Receiver is dropped.
DropReceiver ==
    \E id \in DOMAIN rx :
        /\ rx[id].st = "waiting"
        /\ rx' = [rx EXCEPT ![id].st = "dropped"]
        /\ UNCHANGED <<queue, next_id, tx, replies, loop, run_result,
                       listeners, dialing, connected, external_addresses,
                       routing_table, autonat_servers, store, queries,
                       next_qid, kademlia_mode, pending_kad_queries,
                       pending_swarm_events, active_blocks, kad_mode, put_log,
                       summaries, host, fetch, startup, features, probe>>

\* ------------------------- fetch_cells_from_dht, fetch_rows_from_dht
MaxRowIndex == 1       \* row indexes asked for are 0..MaxRowIndex
MaxExtendedRows == 2   \* largest dimensions.extended_rows() tried

RowIndexes == 0..MaxRowIndex

\* Option<Cell>, Option<(u32, Vec<u8>)>: the position (row index), the
\* length of the content and the content (a number standing for the bytes).
None == [some |-> FALSE, position |-> 0, len |-> 0, content |-> 0]
Some(position, len, content) ==
    [some |-> TRUE, position |-> position, len |-> len, content |-> content]

\* kind is "cells" (fetch_cells_from_dht) or "rows" (fetch_rows_from_dht);
\* positions holds the positions, or the row indexes, passed in; gets the
\* commands sent so far, one per position, in order.
FetchIdle ==
    [pc |-> "idle", kind |-> "cells", block |-> 0, positions |-> <<>>,
     limit |-> 0, extended_rows |-> 0, start |-> 1,
     inflight |-> <<>>, gets |-> <<>>, max_inflight |-> 0, cells |-> <<>>,
     rows |-> <<>>, fetched |-> <<>>, unfetched |-> <<>>, content |-> 0]

\* Mutant: any record that was found makes a cell, whatever its length.
fetch_cell_any_length(position, r) ==
    IF r.st = "done" /\ r.val.ok THEN Some(position, r.val.n, r.val.m)
    ELSE None

\* Client::fetch_cell_from_dht, from the reply get_kad_record resolved
\* with: Some(cell) only for an Ok record whose value converts into
\* [u8; COMMITMENT_SIZE + CHUNK_SIZE].
fetch_cell_from_dht(position, r) ==
    IF r.st = "done" /\ r.val.ok
    THEN IF r.val.n = CellSize THEN Some(position, r.val.n, r.val.m)
         ELSE None
    ELSE None

\* Client::fetch_row_from_dht: Some((row_index, value)) for any Ok record.
fetch_row_from_dht(row_index, r) ==
    IF r.st = "done" /\ r.val.ok THEN Some(row_index, r.val.n, r.val.m)
    ELSE None

\* Mutant: a position is reported unfetched once, however often it was
\* asked for.
RECURSIVE unfetched_once(_, _, _)
unfetched_once(cells, positions, i) ==
    IF i > Len(cells) \/ i > Len(positions) THEN <<>>
    ELSE LET rest == unfetched_once(cells, positions, i + 1)
         IN IF ~ cells[i].some
               /\ ~ \E j \in 1..Len(rest) : rest[j] = positions[i]
            THEN <<positions[i]>> \o rest ELSE rest

\* cells.iter().zip(positions).filter(|(cell, _)| cell.is_none())
\*      .map(|(_, &position)| position)
RECURSIVE unfetched_of(_, _, _)
unfetched_of(cells, positions, i) ==
    IF i > Len(cells) \/ i > Len(positions) THEN <<>>
    ELSE (IF ~ cells[i].some THEN <<positions[i]>> ELSE <<>>)
         \o unfetched_of(cells, positions, i + 1)

\* cells.into_iter().flatten()
RECURSIVE flatten(_, _)
flatten(cells, i) ==
    IF i > Len(cells) THEN <<>>
    ELSE (IF cells[i].some THEN <<cells[i]>> ELSE <<>>) \o flatten(cells, i + 1)

\* for (row_index, row) in fetched_rows.into_iter().flatten()
\*     { rows[row_index as usize] = Some(row); }
\* from result i on.  rows[k] of the code is rows[k + 1] here; indexing
\* past the end of the vector panics.
RECURSIVE store_rows(_, _, _)
store_rows(rows, fetched_rows, i) ==
    IF i > Len(fetched_rows) THEN [rows |-> rows, panicked |-> FALSE]
    ELSE IF ~ fetched_rows[i].some THEN store_rows(rows, fetched_rows, i + 1)
    ELSE IF fetched_rows[i].position >= Len(rows)
    THEN [rows |-> rows, panicked |-> TRUE]
    ELSE store_rows([rows EXCEPT ![fetched_rows[i].position + 1] =
                                     fetched_rows[i]],
                    fetched_rows, i + 1)

\* Mutant: the chunks are twice as long as the limit.
chunk_end_double(positions, limit, start) ==
    IF start + 2 * limit - 1 < Len(positions) THEN start + 2 * limit - 1
    ELSE Len(positions)

\* The chunk of positions.chunks(limit) that begins at index start.
chunk_end(positions, limit, start) ==
    IF start + limit - 1 < Len(positions) THEN start + limit - 1
    ELSE Len(positions)

\* The call begins: vec![None; extended_rows] for the rows, and
\* positions.chunks(0) panics ("chunk size must be non-zero").
FetchBegin ==
    /\ fetch.pc = "called"
    /\ fetch' = [fetch EXCEPT
                    !.pc = IF fetch.limit = 0 THEN "panicked" ELSE "chunks",
                    !.rows = IF fetch.kind = "rows"
                             THEN [i \in 1..fetch.extended_rows |-> None]
                             ELSE <<>>]
    /\ UNCHANGED <<queue, next_id, tx, rx, replies, loop, run_result,
                   listeners, dialing, connected, external_addresses,
                   routing_table, autonat_servers, store, queries, next_qid,
                   kademlia_mode, pending_kad_queries, pending_swarm_events,
                   active_blocks, kad_mode, put_log, summaries, host,
                   startup, features, probe>>

\* join_all over the next chunk is polled for the first time: every
\* fetch_cell_from_dht (fetch_row_from_dht) of the chunk sends its
\* GetKadRecord, in order, and waits for its reply.
FetchChunk ==
    /\ fetch.pc = "chunks"
    /\ fetch.inflight = <<>>
    /\ fetch.start <= Len(fetch.positions)
    /\ LET last == chunk_end(fetch.positions, fetch.limit, fetch.start)
           n == last - fetch.start + 1
           reference(position) ==
               IF fetch.kind = "rows" THEN row_reference(fetch.block, position)
               ELSE cell_reference(fetch.block, position)
           cs == [i \in 1..n |->
                     [Cmd(next_id + i - 1, "GetKadRecord") EXCEPT
                         !.key = reference(fetch.positions[fetch.start + i - 1])]]
           ids == [i \in 1..n |-> cs[i].id]
       IN /\ enqueue(cs)
          /\ fetch' = [fetch EXCEPT
                          !.inflight = ids,
                          !.gets = @ \o ids,
                          !.max_inflight = IF n > @ THEN n ELSE @]
    /\ UNCHANGED startup

\* join_all resolves once every future of the chunk has its result; the
\* results are appended to cells, or stored into rows.
FetchJoin ==
    /\ fetch.pc = "chunks"
    /\ fetch.inflight # <<>>
    /\ \A i \in 1..Len(fetch.inflight) : rx[fetch.inflight[i]].st # "waiting"
    /\ LET position(i) == fetch.positions[fetch.start + i - 1]
           results == [i \in 1..Len(fetch.inflight) |->
                          IF fetch.kind = "rows"
                          THEN fetch_row_from_dht(position(i),
                                                  rx[fetch.inflight[i]])
                          ELSE fetch_cell_from_dht(position(i),
                                                   rx[fetch.inflight[i]])]
           stored == store_rows(fetch.rows, results, 1)
       IN IF fetch.kind = "rows"
          THEN fetch' = [fetch EXCEPT
                            !.pc = IF stored.panicked THEN "panicked" ELSE @,
                            !.rows = stored.rows,
                            !.start = @ + Len(fetch.inflight),
                            !.inflight = <<>>]
          ELSE fetch' = [fetch EXCEPT !.cells = @ \o results,
                                      !.start = @ + Len(fetch.inflight),
                                      !.inflight = <<>>]
    /\ UNCHANGED <<queue, next_id, tx, rx, replies, loop, run_result,
                   listeners, dialing, connected, external_addresses,
                   routing_table, autonat_servers, store, queries, next_qid,
                   kademlia_mode, pending_kad_queries, pending_swarm_events,
                   active_blocks, kad_mode, put_log, summaries, host,
                   startup, features, probe>>

\* After the last chunk: the two result vectors, or the rows.
FetchReturn ==
    /\ fetch.pc = "chunks"
    /\ fetch.inflight = <<>>
    /\ fetch.start > Len(fetch.positions)
    /\ fetch' = IF fetch.kind = "rows" THEN [fetch EXCEPT !.pc = "returned"]
                ELSE [fetch EXCEPT
                         !.pc = "returned",
                         !.unfetched =
                             unfetched_of(fetch.cells, fetch.positions, 1),
                         !.fetched = flatten(fetch.cells, 1)]
    /\ UNCHANGED <<queue, next_id, tx, rx, replies, loop, run_result,
                   listeners, dialing, connected, external_addresses,
                   routing_table, autonat_servers, store, queries, next_qid,
                   kademlia_mode, pending_kad_queries, pending_swarm_events,
                   active_blocks, kad_mode, put_log, summaries, host,
                   startup, features, probe>>

\* ---------------------------------------------------- bootstrap_on_startup
MaxNodes == 2       \* bootstrap nodes passed to bootstrap_on_startup

\* pc is the step the call is at; node the index of the node it works on;
\* awaited the command whose reply it awaits (0: none); log the client
\* methods it has called so far, each with its node and its command.
StartupIdle ==
    [pc |-> "idle", nodes |-> <<>>, node |-> 1, awaited |-> 0, log |-> <<>>,
     result |-> "none"]

\* Mutant: the result of dial_peer is not checked.
bootstrap_on_startup_unchecked_dial(st, ok) ==
    IF ~ ok /\ st.pc # "dial_peer"
    THEN [st EXCEPT !.pc = "returned", !.result = "err", !.awaited = 0]
    ELSE CASE st.pc = "dial_peer" ->
                  [st EXCEPT !.pc = "add_address", !.awaited = 0]
           [] st.pc = "add_address" ->
                  [st EXCEPT !.pc = "add_autonat_server"]
           [] st.pc = "add_autonat_server" ->
                  [st EXCEPT !.pc = IF st.node < Len(st.nodes)
                                    THEN "dial_peer" ELSE "bootstrap",
                             !.node = @ + 1, !.awaited = 0]
           [] st.pc = "bootstrap" ->
                  [st EXCEPT !.pc = "returned", !.result = "ok",
                             !.awaited = 0]

\* Client::bootstrap_on_startup from the return of the client method named
\* by st.pc: `?` returns its error; otherwise the next method of the node,
\* the next node, or bootstrap() after the last node.
bootstrap_on_startup(st, ok) ==
    IF ~ ok
    THEN [st EXCEPT !.pc = "returned", !.result = "err", !.awaited = 0]
    ELSE CASE st.pc = "dial_peer" ->
                  [st EXCEPT !.pc = "add_address", !.awaited = 0]
           [] st.pc = "add_address" ->
                  [st EXCEPT !.pc = "add_autonat_server"]
           [] st.pc = "add_autonat_server" ->
                  [st EXCEPT !.pc = IF st.node < Len(st.nodes)
                                    THEN "dial_peer" ELSE "bootstrap",
                             !.node = @ + 1, !.awaited = 0]
           [] st.pc = "bootstrap" ->
                  [st EXCEPT !.pc = "returned", !.result = "ok",
                             !.awaited = 0]

\* The command the client method st.pc sends.
startup_command(st) ==
    IF st.pc = "bootstrap" THEN Cmd(next_id, "Bootstrap")
    ELSE [Cmd(next_id, CASE st.pc = "dial_peer" -> "DialPeer"
                         [] st.pc = "add_address" -> "AddAddress"
                         [] st.pc = "add_autonat_server" -> "AddAutonatServer")
             EXCEPT !.peer = st.nodes[st.node][1],
                    !.addr = st.nodes[st.node][2]]

\* The call begins: the for loop over nodes, or bootstrap() at once.
StartupBegin ==
    /\ startup.pc = "called"
    /\ startup' = [startup EXCEPT !.pc = IF startup.nodes = <<>>
                                         THEN "bootstrap" ELSE "dial_peer"]
    /\ UNCHANGED <<queue, next_id, tx, rx, replies, loop, run_result,
                   listeners, dialing, connected, external_addresses,
                   routing_table, autonat_servers, store, queries, next_qid,
                   kademlia_mode, pending_kad_queries, pending_swarm_events,
                   active_blocks, kad_mode, put_log, summaries, host, fetch,
                   features, probe>>

\* dial_peer, add_autonat_server or bootstrap is called: execute_sync sends
\* the command and awaits the reply.
StartupCall ==
    /\ startup.pc \in {"dial_peer", "add_autonat_server", "bootstrap"}
    /\ startup.awaited = 0
    /\ enqueue(<<startup_command(startup)>>)
    /\ startup' = [startup EXCEPT
                      !.awaited = next_id,
                      !.log = Append(@, [method |-> startup.pc,
                                         node |-> startup.node,
                                         id |-> next_id])]
    /\ UNCHANGED fetch

\* The awaited call returns with the reply, or with the error of a closed
\* queue or reply channel.
StartupReturn ==
    /\ startup.awaited # 0
    /\ rx[startup.awaited].st # "waiting"
    /\ startup' = bootstrap_on_startup(startup,
                      rx[startup.awaited].st = "done"
                      /\ rx[startup.awaited].val.ok)
    /\ UNCHANGED <<queue, next_id, tx, rx, replies, loop, run_result,
                   listeners, dialing, connected, external_addresses,
                   routing_table, autonat_servers, store, queries, next_qid,
                   kademlia_mode, pending_kad_queries, pending_swarm_events,
                   active_blocks, kad_mode, put_log, summaries, host, fetch,
                   features, probe>>

\* add_address is called: the command is sent and the call returns at once,
\* with Err only if the queue is closed.
StartupAddAddress ==
    /\ startup.pc = "add_address"
    /\ enqueue(<<startup_command(startup)>>)
    /\ startup' = bootstrap_on_startup(
                      [startup EXCEPT
                          !.log = Append(@, [method |-> "add_address",
                                             node |-> startup.node,
                                             id |-> next_id])],
                      loop = "running")
    /\ UNCHANGED fetch

\* --------------------------------------------------------- specifications
\* No address is being classified.
NoProbe == [pc |-> "idle", ip |-> <<0, 0, 0, 0>>, address |-> <<>>,
            ip_global |-> FALSE, addr_global |-> FALSE]

NoPuts == [started |-> 0, reported_ok |-> 0, reported_err |-> 0,
           rejected |-> 0]

\* The state after EventLoop::new and Client::new: nothing queued or
\* pending, kad_mode as configured (kademlia.kademlia_mode), which
\* build_swarm also sets on the Kademlia behaviour.
InitState(mode, f, st, feats, pr, records) ==
    /\ queue = <<>>
    /\ next_id = 1
    /\ tx = EmptyMap
    /\ rx = EmptyMap
    /\ replies = EmptyMap
    /\ run_result = EmptyMap
    /\ loop = "running"
    /\ listeners = {}
    /\ dialing = {}
    /\ connected = {}
    /\ external_addresses = {}
    /\ routing_table = {}
    /\ autonat_servers = {}
    /\ store = records
    /\ queries = EmptyMap
    /\ next_qid = 1
    /\ kademlia_mode = mode
    /\ pending_kad_queries = EmptyMap
    /\ pending_swarm_events = EmptyMap
    /\ active_blocks = EmptyMap
    /\ kad_mode = mode
    /\ put_log = [b \in Blocks |-> NoPuts]
    /\ summaries = [b \in Blocks |-> <<>>]
    /\ host = [memory_gb |-> 0, cpus |-> 0, now |-> 0]
    /\ fetch = f
    /\ startup = st
    /\ features = feats
    /\ probe = pr

\* A node that starts with an empty record store.
InitAll(mode, f, st, feats, pr) == InitState(mode, f, st, feats, pr, {})

\* The default build, with no bootstrap_on_startup call.
InitWith(mode, f) == InitAll(mode, f, StartupIdle, {}, NoProbe)

Init == \E mode \in {"Client", "Server"} : InitWith(mode, FetchIdle)

Next ==
    \/ start_listening
    \/ add_address
    \/ dial_peer
    \/ bootstrap
    \/ add_autonat_server
    \/ get_kad_record
    \/ insert_rows_into_dht
    \/ count_dht_entries
    \/ list_connected_peers
    \/ reconfigure_kademlia_mode
    \/ get_local_info
    \/ get_external_peer_info
    \/ shrink_kademlia_map
    \/ get_kademlia_map_size
    \/ prune_expired_records
    \/ DropReceiver
    \/ RunPruneExpiredRecords
    \/ RunStartListening
    \/ RunAddAddress
    \/ RunBootstrap
    \/ RunGetKadRecord
    \/ RunPutKadRecord
    \/ RunCountKademliaPeers
    \/ RunGetLocalInfo
    \/ RunGetExternalPeerInfo
    \/ RunListConnectedPeers
    \/ RunReconfigureKademliaMode
    \/ RunReduceKademliaMapSize
    \/ RunGetKademliaMapSize
    \/ RunDialPeer
    \/ RunAddAutonatServer
    \/ ConnectionEstablished
    \/ OutgoingConnectionError
    \/ ExternalAddrConfirmed
    \/ ExternalAddrExpired
    \/ PutRecordResult
    \/ GetRecordResult
    \/ BootstrapResult

Spec == Init /\ [][Next]_vars

\* One call fetch_cells_from_dht(block, positions) by a client with the
\* given dht_parallelization_limit, against a running Event Loop.
RECURSIVE SeqsUpTo(_, _)
SeqsUpTo(S, n) ==
    IF n = 0 THEN {<<>>}
    ELSE LET shorter == SeqsUpTo(S, n - 1)
         IN shorter \cup {Append(q, x) : q \in shorter, x \in S}

FetchInit ==
    \/ \E positions \in SeqsUpTo(Positions, MaxPositions),
          limit \in 0..MaxLimit :
           InitWith("Client", [FetchIdle EXCEPT !.pc = "called", !.block = 1,
                                                !.positions = positions,
                                                !.limit = limit])
    \/ \E row_indexes \in SeqsUpTo(RowIndexes, MaxPositions),
          limit \in 0..MaxLimit, extended_rows \in 1..MaxExtendedRows :
           InitWith("Client", [FetchIdle EXCEPT !.pc = "called", !.kind = "rows",
                                                !.block = 1,
                                                !.positions = row_indexes,
                                                !.limit = limit,
                                                !.extended_rows = extended_rows])

FetchNext ==
    \/ FetchBegin
    \/ FetchChunk
    \/ RunGetKadRecord
    \/ GetRecordResult
    \/ FetchJoin
    \/ FetchReturn

FetchSpec == FetchInit /\ [][FetchNext]_vars

\* One call bootstrap_on_startup(nodes) against a running Event Loop.
BootInit ==
    \E peers \in SeqsUpTo(Peers, MaxNodes) :
        InitAll("Client", FetchIdle,
                [StartupIdle EXCEPT
                    !.pc = "called",
                    !.nodes = [i \in 1..Len(peers) |-> <<peers[i], GlobalAddr>>]],
                {}, NoProbe)

BootNext ==
    \/ StartupBegin
    \/ StartupCall
    \/ StartupReturn
    \/ StartupAddAddress
    \/ RunDialPeer
    \/ RunAddAddress
    \/ RunAddAutonatServer
    \/ RunBootstrap
    \/ ConnectionEstablished
    \/ OutgoingConnectionError
    \/ BootstrapResult

BootSpec == BootInit /\ [][BootNext]_vars

\* The PUT pipeline alone: insert_cells_into_dht / insert_rows_into_dht
\* calls, the PutKadRecord commands they send and the PUT results.
PutNext ==
    \/ insert_cells_into_dht
    \/ insert_rows_into_dht
    \/ RunPutKadRecord
    \/ PutRecordResult

PutSpec == Init /\ [][PutNext]_vars

\* A round trip of one caller: insert_cells_into_dht(block, [cell]), and
\* once the command has been handled and the PUT has been reported
\* successful, fetch_cells_from_dht(block, [cell.position]), while the
\* clock advances.  fetch holds the block, the position and the content of
\* the cell from the start.
NumContents == 2    \* distinct cell contents
MaxClock == 2       \* latest instant the clock reaches

Contents == 1..NumContents

RoundInit ==
    \E b \in Blocks, position \in Positions, content \in Contents :
        InitWith("Client",
                 [FetchIdle EXCEPT !.pc = "insert", !.block = b,
                                   !.positions = <<position>>, !.limit = 1,
                                   !.content = content])

\* Client::insert_cells_into_dht(block, vec![cell]) at the instant now;
\* ok is the result the network will report for the PUT.
insert_cell(block, position, content, now, ok) ==
    insert_into_dht(<<dht_record(block, position, content, now, ok)>>, block)

RoundInsert ==
    /\ fetch.pc = "insert"
    /\ next_id = 1
    /\ \E ok \in BOOLEAN :
           insert_cell(fetch.block, fetch.positions[1], fetch.content,
                       host.now, ok)

RoundFetch ==
    /\ fetch.pc = "insert"
    /\ 1 \in DOMAIN run_result
    /\ run_result[1] = "ok"
    /\ put_log[fetch.block].reported_ok = 1
    /\ fetch' = [fetch EXCEPT !.pc = "called"]
    /\ UNCHANGED <<queue, next_id, tx, rx, replies, loop, run_result,
                   listeners, dialing, connected, external_addresses,
                   routing_table, autonat_servers, store, queries, next_qid,
                   kademlia_mode, pending_kad_queries, pending_swarm_events,
                   active_blocks, kad_mode, put_log, summaries, host,
                   startup, features, probe>>

\* Time passes.
Tick ==
    /\ host.now < MaxClock
    /\ host' = [host EXCEPT !.now = @ + 1]
    /\ UNCHANGED <<queue, next_id, tx, rx, replies, loop, run_result,
                   listeners, dialing, connected, external_addresses,
                   routing_table, autonat_servers, store, queries, next_qid,
                   kademlia_mode, pending_kad_queries, pending_swarm_events,
                   active_blocks, kad_mode, put_log, summaries, fetch,
                   startup, features, probe>>

RoundNext ==
    \/ RoundInsert
    \/ RunPutKadRecord
    \/ PutRecordResult
    \/ RoundFetch
    \/ FetchBegin
    \/ FetchChunk
    \/ RunGetKadRecord
    \/ GetRecordResult
    \/ FetchJoin
    \/ FetchReturn
    \/ Tick

RoundSpec == RoundInit /\ [][RoundNext]_vars

\* is_global of an IPv4 address and is_multiaddr_global of a multiaddr built
\* around it.  The octets tried are the ends of every range is_global
\* names, their neighbours, and values in no such range.
FirstOctets == {0, 1, 10, 11, 100, 127, 159, 169, 172, 192, 198, 203, 240, 255}
SecondOctets == {0, 15, 16, 31, 32, 51, 64, 73, 168, 254, 255}
ThirdOctets == {0, 1, 2, 100, 113, 143, 255}
FourthOctets == {0, 3, 9, 10, 11, 255}

\* The multiaddrs tried for the address ip: empty, without an IPv4
\* component, and with ip alone, first or last among the components.
MultiaddrsOf(ip) ==
    {<<>>,
     <<Tcp>>,
     <<Ip6(32, 1, 13, 184), Tcp>>,
     <<Ip4(ip[1], ip[2], ip[3], ip[4])>>,
     <<Ip4(ip[1], ip[2], ip[3], ip[4]), Tcp>>,
     <<Ip4(192, 168, 0, 1), Ip4(ip[1], ip[2], ip[3], ip[4])>>,
     <<Ip6(32, 1, 13, 184), Ip4(ip[1], ip[2], ip[3], ip[4]), Tcp>>}

IpInit ==
    \E a \in FirstOctets, b \in SecondOctets, c \in ThirdOctets,
       d \in FourthOctets :
        \E address \in MultiaddrsOf(<<a, b, c, d>>) :
            InitState("Client", FetchIdle, StartupIdle, {},
                      [NoProbe EXCEPT !.pc = "called", !.ip = <<a, b, c, d>>,
                                      !.address = address],
                      {})

ProbeUnchanged ==
    UNCHANGED <<queue, next_id, tx, rx, replies, loop, run_result, listeners,
                dialing, connected, external_addresses, routing_table,
                autonat_servers, store, queries, next_qid, kademlia_mode,
                pending_kad_queries, pending_swarm_events, active_blocks,
                kad_mode, put_log, summaries, host, fetch, startup, features>>

CallIsGlobal ==
    /\ probe.pc = "called"
    /\ probe' = [probe EXCEPT !.pc = "classified",
                              !.ip_global = is_global(probe.ip)]
    /\ ProbeUnchanged

CallIsMultiaddrGlobal ==
    /\ probe.pc = "classified"
    /\ probe' = [probe EXCEPT
                    !.pc = "done",
                    !.addr_global = is_multiaddr_global(probe.address)]
    /\ ProbeUnchanged

IpNext ==
    \/ CallIsGlobal
    \/ CallIsMultiaddrGlobal

IpSpec == IpInit /\ [][IpNext]_vars

\* prune_expired_records against a store that holds records, in either
\* build: each stored key has one record, with no expiry or one of the
\* instants 0..MaxExpiry; the calls read a clock of 0..MaxPruneNow.
MaxExpiry == 2      \* latest expiry instant of a stored record
MaxPruneNow == 1    \* latest Instant::now() of a prune_expired_records call

stored_record(position, expires) ==
    [key |-> cell_reference(1, position), len |-> CellSize, content |-> 1,
     expires |-> expires]

PruneInit ==
    \E present \in SUBSET Positions,
       feats \in {{}, {"kademlia-rocksdb"}} :
        \E expires \in [present -> {NoExpiry} \cup 0..MaxExpiry] :
            InitState("Client", FetchIdle, StartupIdle, feats, NoProbe,
                      {stored_record(p, expires[p]) : p \in present})

prune_expired_records_late == prune_expired_records_in(0..MaxPruneNow)

PruneNext ==
    \/ prune_expired_records_late
    \/ RunPruneExpiredRecords

PruneSpec == PruneInit /\ [][PruneNext]_vars

\* ------------------------------------------------------------------ claims
HasReplyChannel(id) == tx[id] # "none"

\* The command's reply sender is parked in a pending table.
PendingFor(id) ==
    \/ \E q \in DOMAIN pending_kad_queries : pending_kad_queries[q].cmd = id
    \/ \E p \in DOMAIN pending_swarm_events : pending_swarm_events[p] = id

\* This step is the Event Loop handling the oldest queued command, which is
\* of the given type.
IsRun(type) ==
    /\ Runnable(type)
    /\ run_result[Head(queue).id] = "none"
    /\ run_result'[Head(queue).id] # "none"

\* C1: every command that carries a reply channel has at most one reply
\* sent on it, and exactly one once its sender is gone (used or dropped),
\* whether it ended through run, a later swarm event, or abort.
C1_ExactlyOneReply ==
    \A id \in DOMAIN tx :
        HasReplyChannel(id) =>
            /\ replies[id] <= 1
            /\ tx[id] \in {"sent", "dropped"} => replies[id] = 1

\* C2: a reply receiver dropped before the Event Loop responds never stops
\* the Event Loop: no send on a closed reply channel ends the task.
C2_DroppedReceiverTolerated == loop # ReceiverDropped

\* C3: whenever a command's run returns an error, abort forwards it: the
\* Event Loop is still running after the step, a caller still awaiting the
\* command has the error as its result, and no pending-table entry holds
\* the command.
C3_RunErrorAborted ==
    [][\A id \in DOMAIN run_result :
           (run_result[id] = "none" /\ run_result'[id] = "err") =>
               /\ loop' = "running"
               /\ rx[id].st = "waiting" =>
                      rx'[id] = [st |-> "done", val |-> ErrReply]
               /\ ~ PendingFor(id)']_vars

RECURSIVE SumErrors(_)
SumErrors(stats) ==
    IF stats = <<>> THEN 0
    ELSE Head(stats).error_counter + SumErrors(Tail(stats))

\* The PUT failures counted for block b: in its BlockStat entries removed
\* so far and in its current entry.
ErrorsCounted(b) ==
    SumErrors(summaries[b])
    + (IF b \in DOMAIN active_blocks THEN active_blocks[b].error_counter ELSE 0)

\* C4: every failure of a PUT started by PutKadRecord, a record rejected by
\* kademlia.put_record inside run included, is counted in the
\* error_counter of its block, and none of them stops the Event Loop.
C4_PutFailuresAbsorbed ==
    /\ loop # PutFailed
    /\ \A b \in Blocks :
           put_log[b].rejected + put_log[b].reported_err = ErrorsCounted(b)

\* C5: ReconfigureKademliaMode run in mode Client switches to Server if
\* and only if an external address exists, the host's memory in GB is
\* strictly above memory_gb_threshold and its cpu count strictly above
\* cpus_threshold; otherwise the mode stays Client.
C5_ClientToServer ==
    [][(IsRun("ReconfigureKademliaMode") /\ kad_mode = "Client") =>
           /\ kad_mode' \in {"Client", "Server"}
           /\ kad_mode' = "Server" <=>
                  /\ external_addresses # {}
                  /\ host'.memory_gb > Head(queue).memory_gb_threshold
                  /\ host'.cpus > Head(queue).cpus_threshold]_vars

\* The Event Loop was in mode Client (GetLocalInfo said so to caller 1) and
\* a ReconfigureKademliaMode, at a host with 1 GB and 1 cpu, answered
\* Server to caller 2.
C5_Witness ==
    /\ DOMAIN rx = {1, 2}
    /\ rx[1] = [st |-> "done", val |-> Ok("PeerInfo", "Client", 0, 0)]
    /\ rx[2] = [st |-> "done", val |-> Ok("Mode", "Server", 0, 0)]
    /\ kad_mode = "Server"
    /\ external_addresses # {}
    /\ host = [memory_gb |-> 1, cpus |-> 1, now |-> 0]

\* C6: ReconfigureKademliaMode run in mode Server switches to Client if and
\* only if there is no external address, whatever the host and the
\* thresholds are; and no step other than a ReconfigureKademliaMode run
\* changes the mode.
C6_ServerToClient ==
    [][/\ (IsRun("ReconfigureKademliaMode") /\ kad_mode = "Server") =>
              (kad_mode' = "Client" <=> external_addresses = {})
       /\ kad_mode' # kad_mode => IsRun("ReconfigureKademliaMode")]_vars

\* A Server with an external address was asked to reconfigure with
\* thresholds the host (0 GB, 0 cpus reported) does not meet, and stayed
\* Server; GetLocalInfo had said Server to caller 1 before.
C6_Witness ==
    /\ DOMAIN rx = {1, 2}
    /\ rx[1] = [st |-> "done", val |-> Ok("PeerInfo", "Server", 1, 1)]
    /\ rx[2] = [st |-> "done", val |-> Ok("Mode", "Server", 0, 0)]
    /\ run_result[2] = "ok"
    /\ kad_mode = "Server"
    /\ external_addresses # {}
    /\ host = [memory_gb |-> 0, cpus |-> 0, now |-> 0]

\* C7: for every block in active_blocks,
\* success_counter + error_counter + remaining_counter = total_count.
C7_BlockStatInvariant ==
    \A b \in DOMAIN active_blocks :
        active_blocks[b].success_counter + active_blocks[b].error_counter
        + active_blocks[b].remaining_counter = active_blocks[b].total_count

\* A block whose entry was raised by a second PutKadRecord (more records
\* than one command carries) and has seen a success and a failure, with
\* PUTs still outstanding.
C7_Witness ==
    \E b \in DOMAIN active_blocks :
        /\ active_blocks[b].total_count > MaxRecords
        /\ active_blocks[b].success_counter > 0
        /\ active_blocks[b].error_counter > 0
        /\ active_blocks[b].remaining_counter > 0

Last(seq) == seq[Len(seq)]

\* Every PUT started for block b has reported its result.
AllReported(b) ==
    /\ put_log[b].started > 0
    /\ put_log[b].started = put_log[b].reported_ok + put_log[b].reported_err

\* C8: once every PUT started for block b has reported, b is not in
\* active_blocks, and the BlockStat it was removed with has
\* remaining_counter = 0 and success_counter + error_counter = total_count.
C8_AllReportedBlockRemoved ==
    \A b \in Blocks :
        AllReported(b) =>
            /\ b \notin DOMAIN active_blocks
            /\ summaries[b] # <<>>
            /\ Last(summaries[b]).remaining_counter = 0
            /\ Last(summaries[b]).success_counter
               + Last(summaries[b]).error_counter
               = Last(summaries[b]).total_count

\* Three records for one block, two PUT successes and one failure: the
\* block is gone with success 2, error 1, total 3.
C8_Witness ==
    \E b \in Blocks :
        /\ AllReported(b)
        /\ b \notin DOMAIN active_blocks
        /\ summaries[b] = <<[total_count |-> 3, remaining_counter |-> 0,
                             success_counter |-> 2, error_counter |-> 1]>>

\* All the commands of the run have been sent and handled, and every PUT
\* of block b has reported.
PutsOver(b) ==
    /\ next_id > MaxCmds
    /\ queue = <<>>
    /\ loop = "running"
    /\ AllReported(b)

\* C9 as stated: the final counts of a block are those of all its PUTs (the
\* counts reached when every command runs before any PUT completes), in
\* every interleaving of the commands with the PUT results.
C9_FinalCountsAllPuts ==
    \A b \in Blocks :
        PutsOver(b) =>
            /\ summaries[b] # <<>>
            /\ Last(summaries[b]).total_count = put_log[b].started
            /\ Last(summaries[b]).success_counter = put_log[b].reported_ok
            /\ Last(summaries[b]).error_counter = put_log[b].reported_err

RECURSIVE SumStats(_)
SumStats(stats) ==
    IF stats = <<>>
    THEN [total_count |-> 0, success_counter |-> 0, error_counter |-> 0]
    ELSE LET rest == SumStats(Tail(stats))
         IN [total_count |-> Head(stats).total_count + rest.total_count,
             success_counter |->
                 Head(stats).success_counter + rest.success_counter,
             error_counter |-> Head(stats).error_counter + rest.error_counter]

\* C9, amended: summed over the BlockStat entries the block has had (one is
\* removed each time remaining_counter reaches zero, and a later command
\* starts a new one), the counts are those of all its PUTs in every
\* interleaving.
C9_SummedCountsAllPuts ==
    \A b \in Blocks :
        PutsOver(b) =>
            SumStats(summaries[b]) =
                [total_count |-> put_log[b].started,
                 success_counter |-> put_log[b].reported_ok,
                 error_counter |-> put_log[b].reported_err]

\* Two commands for one block, the PUTs of the first all reported before
\* the second ran: two BlockStat entries, a success and a failure counted.
C9_Witness ==
    \E b \in Blocks :
        /\ PutsOver(b)
        /\ Len(summaries[b]) = 2
        /\ put_log[b].reported_ok > 0
        /\ put_log[b].reported_err > 0

\* Occurrences of position p in a sequence of positions.
RECURSIVE Count(_, _)
Count(p, seq) ==
    IF seq = <<>> THEN 0
    ELSE (IF Head(seq) = p THEN 1 ELSE 0) + Count(p, Tail(seq))

PositionsOf(cells) == [i \in 1..Len(cells) |-> cells[i].position]

\* C10: a fetch_cells_from_dht call that returned (fetched, unfetched) has
\* len(fetched) + len(unfetched) = len(positions), and the positions of the
\* fetched cells with the unfetched positions are positions as a multiset.
C10_FetchPartition ==
    (fetch.kind = "cells" /\ fetch.pc = "returned") =>
        /\ Len(fetch.fetched) + Len(fetch.unfetched) = Len(fetch.positions)
        /\ \A p \in Positions :
               Count(p, PositionsOf(fetch.fetched)) + Count(p, fetch.unfetched)
               = Count(p, fetch.positions)

\* Three positions, one of them twice, fetched in chunks of two and one:
\* some cells fetched, the duplicated position unfetched twice.
C10_Witness ==
    /\ fetch.kind = "cells"
    /\ fetch.pc = "returned"
    /\ Len(fetch.positions) = 3
    /\ fetch.limit = 2
    /\ fetch.fetched # <<>>
    /\ \E p \in Positions : Count(p, fetch.unfetched) = 2

\* The reply the call received to the GET of its i-th position.
ReplyOf(i) == rx[fetch.gets[i]]

\* That GET replied with a record (not an error, not NotFound).
FoundRecord(i) == ReplyOf(i).st = "done" /\ ReplyOf(i).val.ok

\* The positions, from index i on, whose GET replied with a record of
\* exactly 80 bytes, and the others.
RECURSIVE FullCellPositions(_)
FullCellPositions(i) ==
    IF i > Len(fetch.positions) THEN <<>>
    ELSE (IF FoundRecord(i) /\ ReplyOf(i).val.n = 80
          THEN <<fetch.positions[i]>> ELSE <<>>) \o FullCellPositions(i + 1)

RECURSIVE OtherPositions(_)
OtherPositions(i) ==
    IF i > Len(fetch.positions) THEN <<>>
    ELSE (IF FoundRecord(i) /\ ReplyOf(i).val.n = 80
          THEN <<>> ELSE <<fetch.positions[i]>>) \o OtherPositions(i + 1)

\* C11: fetch_cells_from_dht returns in fetched exactly the positions whose
\* GET replied with a record of 80 bytes, and in unfetched the positions
\* whose GET replied with an error or a record of another length; no reply
\* makes the call fail (it panics only on a limit of 0, before any GET).
C11_FetchedIffFullCell ==
    fetch.kind = "cells" =>
        /\ fetch.pc = "returned" =>
               /\ PositionsOf(fetch.fetched) = FullCellPositions(1)
               /\ fetch.unfetched = OtherPositions(1)
               /\ \A i \in 1..Len(fetch.fetched) : fetch.fetched[i].len = 80
        /\ fetch.pc = "panicked" => (fetch.limit = 0 /\ fetch.gets = <<>>)

\* Three positions: one GET found 80 bytes, one found 79 bytes, one failed;
\* one cell is fetched and two positions are unfetched.
C11_Witness ==
    /\ fetch.kind = "cells"
    /\ fetch.pc = "returned"
    /\ Len(fetch.fetched) = 1
    /\ Len(fetch.unfetched) = 2
    /\ \E i, j, k \in 1..Len(fetch.gets) :
           /\ FoundRecord(i) /\ ReplyOf(i).val.n = 80
           /\ FoundRecord(j) /\ ReplyOf(j).val.n = 79
           /\ ReplyOf(k) = [st |-> "done", val |-> ErrReply]

\* The GETs of the call that have not been answered.
Outstanding == {i \in 1..Len(fetch.gets) : ReplyOf(i).st = "waiting"}

\* C12: during a fetch_cells_from_dht or fetch_rows_from_dht call at most
\* dht_parallelization_limit of its GETs are outstanding, and GETs are sent
\* only when every GET sent before has been answered.
C12_ChunkedFanOut ==
    [][/\ Cardinality({i \in 1..Len(fetch'.gets) :
                          rx'[fetch'.gets[i]].st = "waiting"}) <= fetch'.limit
       /\ fetch'.gets # fetch.gets => Outstanding = {}]_vars

\* A fetch_rows_from_dht call with limit 2 and three row indexes: the first
\* chunk has been answered and the GET of the second chunk is outstanding.
C12_Witness ==
    /\ fetch.kind = "rows"
    /\ fetch.limit = 2
    /\ Len(fetch.gets) = 3
    /\ Outstanding = {3}
    /\ fetch.max_inflight = 2

\* C13: fetch_rows_from_dht returns, for every list of row indexes, a
\* vector of extended_rows entries in which entry i is Some(bytes) exactly
\* when i is among the row indexes and a GET for it found a record, bytes
\* being the value of such a record.
C13_SparseRows ==
    (fetch.kind = "rows" /\ fetch.limit > 0) =>
        /\ fetch.pc # "panicked"
        /\ fetch.pc = "returned" =>
               /\ Len(fetch.rows) = fetch.extended_rows
               /\ \A i \in 0..(fetch.extended_rows - 1) :
                      /\ fetch.rows[i + 1].some <=>
                             \E k \in 1..Len(fetch.positions) :
                                 fetch.positions[k] = i /\ FoundRecord(k)
                      /\ fetch.rows[i + 1].some =>
                             \E k \in 1..Len(fetch.positions) :
                                 /\ fetch.positions[k] = i
                                 /\ FoundRecord(k)
                                 /\ fetch.rows[i + 1].len = ReplyOf(k).val.n

\* C14: a step that is insert_cells_into_dht or insert_rows_into_dht with
\* an empty list gives the caller an error, leaves the command queue,
\* active_blocks and the pending query table as they were; no PutKadRecord
\* without records is ever queued.
C14_EmptyInsertRejected ==
    [][/\ (\E b \in Blocks, now \in Times :
              \/ insert_cells(b, 0, now, <<>>)
              \/ insert_rows(b, 0, now, <<>>)) =>
              /\ rx'[next_id].st = "empty_list_error"
              /\ queue' = queue
              /\ active_blocks' = active_blocks
              /\ pending_kad_queries' = pending_kad_queries
       /\ \A i \in 1..Len(queue') :
              queue'[i].type = "PutKadRecord" => queue'[i].records # <<>>]_vars

\* An insert with an empty list returned its error while a block was being
\* counted and PUT queries were pending.
C14_Witness ==
    /\ \E id \in DOMAIN rx : rx[id].st = "empty_list_error"
    /\ active_blocks # EmptyMap
    /\ pending_kad_queries # EmptyMap
    /\ queue = <<>>

\* The client method bootstrap_on_startup calls k-th when nothing fails:
\* dial_peer, add_address, add_autonat_server for node 1, the same for
\* node 2, ..., and bootstrap after the last node.
ExpectedCall(k) ==
    IF k <= 3 * Len(startup.nodes)
    THEN [method |-> <<"dial_peer", "add_address",
                       "add_autonat_server">>[((k - 1) % 3) + 1],
          node |-> ((k - 1) \div 3) + 1]
    ELSE [method |-> "bootstrap", node |-> Len(startup.nodes) + 1]

\* The logged call returned Ok: its command was sent and, where it has a
\* reply, the reply was Ok.
Succeeded(e) ==
    IF e.method = "add_address" THEN rx[e.id].st = "none"
    ELSE rx[e.id].st = "done" /\ rx[e.id].val.ok

SendFailed(id) ==
    /\ id \notin DOMAIN rx
    /\ id \in DOMAIN rx'
    /\ loop # "running"
    /\ rx'[id].st # "empty_list_error"

\* C16 as stated: when the send on the closed queue fails, a command that
\* carries a reply channel has the error sent on that channel (its one
\* reply, an Err the caller reads there), and a fire-and-forget command
\* gives its caller the send error directly.
C16_SendErrorOnReplyChannel ==
    [][\A id \in DOMAIN rx' :
           SendFailed(id) =>
               IF HasReplyChannel(id)'
               THEN /\ replies'[id] = 1
                    /\ rx'[id] = [st |-> "done", val |-> ErrReply]
               ELSE rx'[id].st = "send_error"]_vars

\* What execute_sync, add_address and put_kad_record do when the send on the
\* closed queue fails: the caller of either kind of command has the send
\* error as the method's result at once; the command is not queued and
\* never runs, and a reply channel it carries is dropped with it, nothing
\* ever sent on it.
DirectSendError ==
    [][/\ \A id \in DOMAIN rx' :
              SendFailed(id) =>
                  /\ rx'[id].st = "send_error"
                  /\ tx'[id] \in {"none", "dropped"}
                  /\ replies'[id] = 0
                  /\ run_result'[id] = "none"
                  /\ queue' = queue
       /\ \A id \in DOMAIN rx :
              rx[id].st = "send_error" =>
                  /\ rx'[id] = rx[id]
                  /\ replies'[id] = 0
                  /\ run_result'[id] = "none"]_vars

\* The Event Loop is gone and a command with a reply channel, sent after
\* that, left its caller with the send error and no reply on the channel.
DirectSendErrorSeen ==
    /\ loop # "running"
    /\ \E id \in DOMAIN rx :
           /\ rx[id].st = "send_error"
           /\ tx[id] = "dropped"
           /\ replies[id] = 0

\* C17: once the Event Loop has terminated, every command with a reply
\* channel that was outstanding (queued, or parked in a pending table) has
\* had an error reply sent on its channel, so no caller is left waiting and
\* none finds the channel closed without a reply.
C17_OutstandingAborted ==
    loop # "running" =>
        \A id \in DOMAIN tx :
            (HasReplyChannel(id) /\ rx[id].st # "send_error") =>
                /\ replies[id] = 1
                /\ rx[id].st \notin {"waiting", "closed"}

\* The commands sent on the queue: a failed send and an insert that
\* returned early put none there.
Enqueued(id) == rx[id].st \notin {"send_error", "empty_list_error"}

ExpiredAt(now) ==
    {r \in store : r.expires # NoExpiry /\ r.expires <= now}

\* C19: a PruneExpiredRecords(now) handled on the memory store removes
\* the records whose expiry is at or before now and no other (a record
\* with no expiry stays), its reply is the number removed, and no record
\* with a removed key is left in the store; in the kademlia-rocksdb build
\* the store is left as it is and the reply is 0.
C19_PruneRemovesExpired ==
    [][IsRun("PruneExpiredRecords") =>
          LET c == Head(queue) IN
          IF "kademlia-rocksdb" \in features
          THEN /\ store' = store
               /\ rx'[c.id] = [st |-> "done", val |-> Ok("usize", "", 0, 0)]
          ELSE /\ store' = store \ ExpiredAt(c.now)
               /\ rx'[c.id] =
                      [st |-> "done",
                       val |-> Ok("usize", "", Cardinality(ExpiredAt(c.now)),
                                  0)]
               /\ \A r \in ExpiredAt(c.now) :
                      ~ \E kept \in store' : kept.key = r.key]_vars

\* The memory store held a record expiring at the instant of the call and
\* a record without expiry: the reply counted one removal and the record
\* without expiry is what the store still holds.
C19_Witness ==
    /\ features = {}
    /\ \E id \in DOMAIN rx :
           rx[id] = [st |-> "done", val |-> Ok("usize", "", 1, 0)]
    /\ Cardinality(store) = 1
    /\ \A r \in store : r.expires = NoExpiry

\* The leading 24 bits of the address as a number, and membership of the
\* block base/len, for a prefix of at most 24 bits.
Leading24(ip) == (ip[1] * 256 + ip[2]) * 256 + ip[3]
InBlock(ip, base, len) ==
    Leading24(ip) \div 2^(24 - len) = Leading24(base) \div 2^(24 - len)

\* The ranges that are not globally reachable.
NotGlobalRange(ip) ==
    \/ InBlock(ip, <<0, 0, 0, 0>>, 8)
    \/ InBlock(ip, <<10, 0, 0, 0>>, 8)
    \/ InBlock(ip, <<127, 0, 0, 0>>, 8)
    \/ InBlock(ip, <<169, 254, 0, 0>>, 16)
    \/ InBlock(ip, <<172, 16, 0, 0>>, 12)
    \/ InBlock(ip, <<192, 168, 0, 0>>, 16)
    \/ /\ InBlock(ip, <<192, 0, 0, 0>>, 24)
       /\ ip \notin {<<192, 0, 0, 9>>, <<192, 0, 0, 10>>}
    \/ InBlock(ip, <<192, 0, 2, 0>>, 24)
    \/ InBlock(ip, <<198, 51, 100, 0>>, 24)
    \/ InBlock(ip, <<203, 0, 113, 0>>, 24)
    \/ ip = <<255, 255, 255, 255>>

\* C20: is_global is false for the addresses of 0.0.0.0/8, 10.0.0.0/8,
\* 127.0.0.0/8, 169.254.0.0/16, 172.16.0.0/12, 192.168.0.0/16, 192.0.0.0/24
\* other than .9 and .10, the three documentation blocks and the broadcast
\* address, and true for every other address; is_multiaddr_global is true
\* exactly when some IPv4 component of the multiaddr has a global address,
\* so false for the empty multiaddr and one without IPv4 component.
C20_GlobalClassification ==
    /\ probe.pc \in {"classified", "done"} =>
           probe.ip_global = ~ NotGlobalRange(probe.ip)
    /\ probe.pc = "done" =>
           probe.addr_global =
               \E i \in 1..Len(probe.address) :
                   /\ probe.address[i].proto = "ip4"
                   /\ ~ NotGlobalRange(probe.address[i].ip)

\* 192.0.0.9, one of the two exceptions of 192.0.0.0/24, was classified
\* global, and so was a multiaddr that holds it after a private address.
C20_Witness ==
    /\ probe.pc = "done"
    /\ probe.ip = <<192, 0, 0, 9>>
    /\ probe.ip_global
    /\ probe.address = <<Ip4(192, 168, 0, 1), Ip4(192, 0, 0, 9)>>
    /\ probe.addr_global

RoundRecords ==
    {r \in store : r.key = cell_reference(fetch.block, fetch.positions[1])}

\* C22: when the fetch of the round trip returns before the inserted
\* record expires, fetched is the one cell inserted, with its position and
\* its 80 bytes of content, and unfetched is empty.
C22_RoundTrip ==
    (/\ fetch.content # 0
     /\ fetch.pc = "returned"
     /\ \A r \in RoundRecords : host.now < r.expires) =>
        /\ RoundRecords # {}
        /\ fetch.fetched =
               <<Some(fetch.positions[1], CellSize, fetch.content)>>
        /\ fetch.unfetched = <<>>

\* The cell was inserted at instant 1, its PUT succeeded, and the fetch
\* returned it at instant 1, before the record's expiry.
C22_Witness ==
    /\ fetch.content = 2
    /\ fetch.pc = "returned"
    /\ host.now = 1
    /\ \E r \in RoundRecords : r.expires = 1 + Ttl
    /\ put_log[fetch.block].reported_ok = 1
    /\ fetch.fetched = <<Some(fetch.positions[1], CellSize, 2)>>

\* C23: the mode the Event Loop tracks is the role last set on the Kademlia
\* behaviour, before and after every step; the reply to a
\* ReconfigureKademliaMode is the mode tracked after the command, and the
\* reply to a GetLocalInfo reports the tracked mode.
C23_ModeConsistent ==
    [][/\ kad_mode = kademlia_mode
       /\ kad_mode' = kademlia_mode'
       /\ \A type \in {"ReconfigureKademliaMode", "GetLocalInfo"} :
              (IsRun(type) /\ rx[Head(queue).id].st = "waiting") =>
                  /\ rx'[Head(queue).id].st = "done"
                  /\ rx'[Head(queue).id].val.ok
                  /\ rx'[Head(queue).id].val.mode = kad_mode'
                  /\ type = "GetLocalInfo" => kad_mode' = kad_mode]_vars

\* A ReconfigureKademliaMode at a host above the thresholds replied Server,
\* Kademlia's role is Server, and a GetLocalInfo after it reported Server.
C23_Witness ==
    /\ DOMAIN rx = {1, 2}
    /\ rx[1] = [st |-> "done", val |-> Ok("Mode", "Server", 0, 0)]
    /\ rx[2].st = "done"
    /\ rx[2].val.ty = "PeerInfo"
    /\ rx[2].val.mode = "Server"
    /\ kad_mode = "Server"
    /\ kademlia_mode = "Server"
    /\ host.memory_gb = 1
    /\ host.cpus = 1

\* The PutRecord entries of the pending query table.
PutRecordEntries(pending) ==
    {q \in DOMAIN pending : pending[q].kind = "PutRecord"}

\* The PUT queries in progress.
PutQueries(qs) == {q \in DOMAIN qs : qs[q].kind = "put"}

\* C24: an insert of n > 0 records for block b, the Event Loop running,
\* appends one PutKadRecord of those n records, quorum One, block b, to
\* the queue; handling a PutKadRecord of n records for block b starts n PUT
\* queries, adds n PutRecord entries to the pending query table, and
\* raises total_count and remaining_counter of b by n (an absent b starts
\* at n, n, 0, 0), the entries of the other blocks staying as they are.
C24_InsertStartsAllPuts ==
    [][/\ \A b \in Blocks, n \in 1..MaxRecords, now \in Times :
              \A oks \in [1..n -> BOOLEAN] :
                  ((\/ insert_cells(b, n, now, oks)
                    \/ insert_rows(b, n, now, oks))
                   /\ loop = "running") =>
                      /\ Len(queue') = Len(queue) + 1
                      /\ Last(queue').type = "PutKadRecord"
                      /\ Last(queue').quorum = "One"
                      /\ Last(queue').block = b
                      /\ Len(Last(queue').records) = n
       /\ IsRun("PutKadRecord") =>
              LET c == Head(queue)
                  n == Len(c.records)
              IN /\ Cardinality(PutQueries(queries')) =
                        Cardinality(PutQueries(queries)) + n
                 /\ Cardinality(PutRecordEntries(pending_kad_queries')) =
                        Cardinality(PutRecordEntries(pending_kad_queries)) + n
                 /\ c.block \in DOMAIN active_blocks'
                 /\ active_blocks'[c.block] =
                        IF c.block \in DOMAIN active_blocks
                        THEN [active_blocks[c.block] EXCEPT
                                 !.total_count = @ + n,
                                 !.remaining_counter = @ + n]
                        ELSE [total_count |-> n, remaining_counter |-> n,
                              success_counter |-> 0, error_counter |-> 0]
                 /\ \A b \in Blocks \ {c.block} :
                        /\ b \in DOMAIN active_blocks'
                               <=> b \in DOMAIN active_blocks
                        /\ b \in DOMAIN active_blocks =>
                               active_blocks'[b] = active_blocks[b]]_vars

\* The pending query table holds a GetRecord entry under query id q.
GetEntry(pending, q) == q \in DOMAIN pending /\ pending[q].kind = "GetRecord"

\* C25: handling a GetKadRecord parks the caller's reply sender in a
\* GetRecord entry under the new query id and sends nothing; the entry
\* belongs to a query in progress for as long as it exists; the event that
\* removes it sends the one reply, which is the first record reported for
\* the query, or the error when the query ended without one; a reply
\* channel that was used gets no further reply, whatever the query
\* reports afterwards.
C25_GetRecordReply ==
    [][/\ IsRun("GetKadRecord") =>
              LET id == Head(queue).id IN
              /\ run_result'[id] = "ok"
              /\ ~ GetEntry(pending_kad_queries, next_qid)
              /\ GetEntry(pending_kad_queries', next_qid)
              /\ pending_kad_queries'[next_qid].cmd = id
              /\ next_qid \in DOMAIN queries'
              /\ tx'[id] = "pending"
              /\ replies'[id] = replies[id]
       /\ \A q \in DOMAIN pending_kad_queries :
              GetEntry(pending_kad_queries, q) =>
                  LET id == pending_kad_queries[q].cmd IN
                  /\ q \in DOMAIN queries
                  /\ GetEntry(pending_kad_queries', q) =>
                         /\ q \in DOMAIN queries'
                         /\ replies'[id] = replies[id]
                  /\ (~ GetEntry(pending_kad_queries', q)
                      /\ loop' = "running") =>
                         /\ replies'[id] = replies[id] + 1
                         /\ tx'[id] = "sent"
                         /\ rx[id].st = "waiting" =>
                                /\ rx'[id].st = "done"
                                /\ rx'[id].val =
                                       IF q \in DOMAIN queries'
                                       THEN queries'[q].first
                                       ELSE ErrReply
                                /\ q \in DOMAIN queries' =>
                                       /\ rx'[id].val.ok
                                       /\ rx'[id].val.ty = "PeerRecord"
       /\ \A id \in DOMAIN tx :
              tx[id] = "sent" =>
                  /\ replies'[id] = replies[id]
                  /\ rx[id].st = "done" => rx'[id] = rx[id]]_vars

\* A GET query reported a record, which caller 1 received as its one
\* reply; the query is still finishing and has no entry any more.
C25_Witness ==
    /\ 1 \in DOMAIN rx
    /\ replies[1] = 1
    /\ \E q \in DOMAIN queries :
           /\ queries[q].kind = "get"
           /\ queries[q].finishing
           /\ q \notin DOMAIN pending_kad_queries
           /\ rx[1] = [st |-> "done", val |-> queries[q].first]

\* C26: handling a DialPeer whose dial started parks the caller's reply
\* sender in the pending dial table under the peer and sends nothing; a
\* parked sender is used only by the ConnectionEstablished event of its
\* peer, which sends Ok(ConnectionEstablishedInfo) and removes the entry;
\* a ConnectionEstablished event of a peer without entry leaves the
\* tables, the channels and the queue as they are.
C26_DialReplyOnConnection ==
    [][/\ (IsRun("DialPeer") /\ run_result'[Head(queue).id] = "ok") =>
              LET c == Head(queue) IN
              /\ c.peer \in DOMAIN pending_swarm_events'
              /\ pending_swarm_events'[c.peer] = c.id
              /\ tx'[c.id] = "pending"
              /\ replies'[c.id] = replies[c.id]
       /\ \A p \in DOMAIN pending_swarm_events :
              LET id == pending_swarm_events[p] IN
              /\ replies'[id] # replies[id] =>
                     /\ p \in connected' \ connected
                     /\ p \notin DOMAIN pending_swarm_events'
                     /\ replies'[id] = replies[id] + 1
                     /\ rx[id].st = "waiting" =>
                            rx'[id] =
                                [st |-> "done",
                                 val |-> Ok("ConnectionEstablishedInfo", "",
                                            p, 0)]
              /\ (p \in connected' \ connected /\ loop' = "running") =>
                     /\ p \notin DOMAIN pending_swarm_events'
                     /\ replies'[id] = replies[id] + 1
       /\ \A p \in (connected' \ connected) \ DOMAIN pending_swarm_events :
              /\ pending_swarm_events' = pending_swarm_events
              /\ pending_kad_queries' = pending_kad_queries
              /\ replies' = replies
              /\ tx' = tx
              /\ rx' = rx
              /\ queue' = queue]_vars

\* Caller 1 dialed a peer, the dial was parked, and the connection to that
\* peer was then established: caller 1 has its ConnectionEstablishedInfo
\* and the pending dial table is empty again.
C26_Witness ==
    /\ 1 \in DOMAIN rx
    /\ run_result[1] = "ok"
    /\ replies[1] = 1
    /\ rx[1].st = "done"
    /\ rx[1].val.ty = "ConnectionEstablishedInfo"
    /\ rx[1].val.n \in connected
    /\ pending_swarm_events = EmptyMap

\* C27: no reply sender parked in the pending dial table is dropped unused
\* while the Event Loop runs: a DialPeer handled for a peer that already
\* has an entry leaves the earlier caller's sender parked, and a caller of
\* a parked dial ends with a ConnectionEstablishedInfo reply, never with a
\* closed channel.
C27_NoDialReplyLost ==
    [][\A p \in DOMAIN pending_swarm_events :
           LET id == pending_swarm_events[p] IN
           loop' = "running" =>
               /\ tx'[id] \in {"pending", "sent"}
               /\ rx'[id].st # "closed"
               /\ (IsRun("DialPeer") /\ Head(queue).peer = p) =>
                      \/ PendingFor(id)'
                      \/ replies'[id] = 1]_vars

RECURSIVE SumRemaining(_)
\* The sum of remaining_counter over the blocks of an active_blocks map.
SumRemaining(blocks) ==
    IF DOMAIN blocks = {} THEN 0
    ELSE LET b == CHOOSE x \in DOMAIN blocks : TRUE
         IN blocks[b].remaining_counter + SumRemaining(MapRemove(blocks, b))

====
